---- MODULE Spec2Model ----
(***************************************************************************)
(* A model of the memory-allocators repository: the bump-pointer arena    *)
(* LinearAllocator with its TempArenaMemory save/restore scopes, and the  *)
(* growable array DynArray<T> that is backed by the heap or by an arena.  *)
(*                                                                         *)
(* size_t and uintptr_t are words of WordBits bits: every sum, difference  *)
(* and product of the code is taken modulo Word.                           *)
(***************************************************************************)
EXTENDS Integers, Sequences, FiniteSets, TLC

\* ------------------------------------------------------------------ bounds
\* width of size_t / uintptr_t in the model (the code's is 64)
WordBits == 8
\* request sizes 0..MaxReq are tried by every allocation
MaxReq == 1
\* length of the buffer whose contents are followed byte by byte
MaxBytes == 4
\* blocks that the callers who keep count of their blocks hold at a time
MaxLive == 3

Word == 2 ^ WordBits
Wrap(x) == (x + Word * Word) % Word

\* ------------------------------------------------------- program constants
\* LinearAllocator::DEFAULT_ALIGNMENT = 2 * sizeof(void*)
DEFAULT_ALIGNMENT == 16

\* AllocatorError plus the success value of std::expected
AllocatorError == {"OutOfMemory", "InvalidAlignment", "NullPointer", "OutOfBounds"}
Ok == "Ok"
NULL == 0

VARIABLES
    arena,      \* the LinearAllocator: buf, buf_len, prev_offset, curr_offset
    mem,        \* the bytes of the backing buffer, by offset
    ret,        \* the last call: its name, its error or Ok, the pointer returned
    ub,         \* "none", or what an out-of-bounds write has done to the process
    temps,      \* the TempArenaMemory objects: arena, prev_offset, curr_offset
    tghost,     \* per scope: the offsets at begin, the first request made inside
    ended,      \* the scope that has just ended, with what tghost held for it
    arrays,     \* the DynArray<int> objects: their fields and their storage
    heap,       \* the blocks malloc has handed out and free has not taken back
    deleted,    \* the arena object has been deleted by an array that owned it
    aborted,    \* a failed assert has ended the process
    growth,     \* a grow() seen alone: capacity, min_capacity, new capacity
    blocks      \* the blocks the arena has returned, where its callers keep count

vars == <<arena, mem, ret, ub, temps, tghost, ended,
          arrays, heap, deleted, aborted, growth, blocks>>
\* the state of the arrays, which the arena's own operations leave alone
avars == <<arrays, heap, deleted, aborted, growth>>

\* ------------------------------------------------------------ the objects
\* the DynArray objects of the program
ArrayIds == {1, 2}
\* a slot of storage that holds no constructed element (elements are not 0)
Uninit == 0
\* a DynArray that has not been constructed: cells are the slots of its
\* storage block, bytes the length in bytes the block was obtained with
NoArray ==
    [life |-> "none", data |-> NULL, size |-> 0, capacity |-> 0,
     allocator |-> FALSE, owns_allocator |-> FALSE, cells |-> <<>>, bytes |-> 0]
NoGrowth == [called |-> FALSE, capacity |-> 0, min_capacity |-> 0, new_capacity |-> 0,
             count |-> 0]

\* ---------------------------------------------------------- bit arithmetic
RECURSIVE BitAndN(_, _, _)
BitAndN(x, y, n) ==
    IF n = 0 THEN 0
    ELSE (IF x % 2 = 1 /\ y % 2 = 1 THEN 1 ELSE 0) + 2 * BitAndN(x \div 2, y \div 2, n - 1)

BitAnd(x, y) == BitAndN(x, y, WordBits)

\* ------------------------------------------------------- LinearAllocator
create(backing_buffer, backing_buffer_length) ==
    [buf |-> backing_buffer, buf_len |-> backing_buffer_length,
     curr_offset |-> 0, prev_offset |-> 0]

\* the words x with (x & (x-1)) == 0 && x != 0
PowersOfTwo == {x \in 0 .. (Word - 1) : BitAnd(x, Wrap(x - 1)) = 0 /\ x # 0}

is_power_of_two(x) == x \in PowersOfTwo

\* [err, value]: the aligned address, or InvalidAlignment
align_forward(ptr, align) ==
    IF ~is_power_of_two(align)
    THEN [err |-> "InvalidAlignment", value |-> 0]
    ELSE LET modulo == BitAnd(ptr, Wrap(align - 1))
         IN  [err |-> Ok,
              value |-> IF modulo # 0 THEN Wrap(ptr + (align - modulo)) ELSE ptr]

\* memset(&buf[offset], 0, size) leaves the buffer
WritesOutside(a, offset, size) == size > 0 /\ offset + size > a.buf_len

\* memset(&buf[offset], 0, size), as far as it falls inside the buffer
memset0(a, m, offset, size) ==
    IF size = 0 THEN m
    ELSE [i \in DOMAIN m |-> IF offset <= i /\ i < offset + size THEN 0 ELSE m[i]]

\* [err, ptr, a, m, oob]: the result, the arena and the buffer after the call
\* alloc_align that records the aligned offset before it tests the space
alloc_align_early(a, m, size, align) ==
    LET aligned == align_forward(Wrap(a.buf + a.curr_offset), align)
        offset  == Wrap(aligned.value - a.buf)
        a2      == [a EXCEPT !.prev_offset = offset]
    IN  IF aligned.err # Ok
        THEN [err |-> aligned.err, ptr |-> NULL, a |-> a, m |-> m, oob |-> FALSE]
        ELSE IF Wrap(offset + size) <= a.buf_len
        THEN [err |-> Ok, ptr |-> Wrap(a.buf + offset),
              a |-> [a2 EXCEPT !.curr_offset = Wrap(offset + size)],
              m |-> memset0(a, m, offset, size),
              oob |-> WritesOutside(a, offset, size)]
        ELSE [err |-> "OutOfMemory", ptr |-> NULL, a |-> a2, m |-> m, oob |-> FALSE]

alloc_align(a, m, size, align) ==
    LET curr_ptr == Wrap(a.buf + a.curr_offset)
        aligned  == align_forward(curr_ptr, align)
        offset   == Wrap(aligned.value - a.buf)
    IN  IF aligned.err # Ok
        THEN [err |-> aligned.err, ptr |-> NULL, a |-> a, m |-> m, oob |-> FALSE]
        ELSE IF Wrap(offset + size) <= a.buf_len
        THEN [err |-> Ok, ptr |-> Wrap(a.buf + offset),
              a |-> [a EXCEPT !.prev_offset = offset,
                              !.curr_offset = Wrap(offset + size)],
              m |-> memset0(a, m, offset, size),
              oob |-> WritesOutside(a, offset, size)]
        ELSE [err |-> "OutOfMemory", ptr |-> NULL, a |-> a, m |-> m, oob |-> FALSE]

alloc(a, m, size) == alloc_align(a, m, size, DEFAULT_ALIGNMENT)

\* memmove(new, old, n) inside the buffer, by offsets
memmove(a, m, dst, src, n) ==
    [i \in DOMAIN m |->
        IF dst <= i /\ i < dst + n /\ (src + (i - dst)) \in DOMAIN m
        THEN m[src + (i - dst)] ELSE m[i]]

\* resize_align that takes every old_memory for null
resize_align_afresh(a, m, old_memory, old_size, new_size, align) ==
    IF ~is_power_of_two(align)
    THEN [err |-> "InvalidAlignment", ptr |-> NULL, a |-> a, m |-> m, oob |-> FALSE]
    ELSE alloc_align(a, m, new_size, align)

\* resize_align whose in-place branch grows a block without zero-filling it
resize_align_unfilled(a, m, old_memory, old_size, new_size, align) ==
    IF ~is_power_of_two(align)
    THEN [err |-> "InvalidAlignment", ptr |-> NULL, a |-> a, m |-> m, oob |-> FALSE]
    ELSE IF old_memory = NULL \/ old_size = 0
    THEN alloc_align(a, m, new_size, align)
    ELSE IF a.buf <= old_memory /\ old_memory < Wrap(a.buf + a.buf_len)
    THEN IF Wrap(a.buf + a.prev_offset) = old_memory
         THEN LET a2 == [a EXCEPT !.curr_offset = Wrap(a.prev_offset + new_size)]
              IN  IF a2.curr_offset > a.buf_len
                  THEN [err |-> "OutOfMemory", ptr |-> NULL, a |-> a2, m |-> m,
                        oob |-> FALSE]
                  ELSE [err |-> Ok, ptr |-> old_memory, a |-> a2, m |-> m, oob |-> FALSE]
         ELSE LET r == alloc_align(a, m, new_size, align)
                  copy_size == IF old_size < new_size THEN old_size ELSE new_size
                  src == old_memory - a.buf
              IN  IF r.err # Ok THEN r
                  ELSE [r EXCEPT !.m = memmove(a, r.m, r.a.prev_offset, src, copy_size),
                                 !.oob = r.oob \/ src + copy_size > a.buf_len
                                               \/ r.a.prev_offset + copy_size > a.buf_len]
    ELSE [err |-> "OutOfBounds", ptr |-> NULL, a |-> a, m |-> m, oob |-> FALSE]

resize_align(a, m, old_memory, old_size, new_size, align) ==
    IF ~is_power_of_two(align)
    THEN [err |-> "InvalidAlignment", ptr |-> NULL, a |-> a, m |-> m, oob |-> FALSE]
    ELSE IF old_memory = NULL \/ old_size = 0
    THEN alloc_align(a, m, new_size, align)
    ELSE IF a.buf <= old_memory /\ old_memory < Wrap(a.buf + a.buf_len)
    THEN IF Wrap(a.buf + a.prev_offset) = old_memory
         THEN LET a2 == [a EXCEPT !.curr_offset = Wrap(a.prev_offset + new_size)]
              IN  IF a2.curr_offset > a.buf_len
                  THEN [err |-> "OutOfMemory", ptr |-> NULL, a |-> a2, m |-> m,
                        oob |-> FALSE]
                  ELSE IF new_size > old_size
                  THEN [err |-> Ok, ptr |-> old_memory, a |-> a2,
                        m |-> memset0(a, m, a.prev_offset + old_size, new_size - old_size),
                        oob |-> WritesOutside(a, a.prev_offset + old_size,
                                              new_size - old_size)]
                  ELSE [err |-> Ok, ptr |-> old_memory, a |-> a2, m |-> m, oob |-> FALSE]
         ELSE LET r == alloc_align(a, m, new_size, align)
                  copy_size == IF old_size < new_size THEN old_size ELSE new_size
                  src == old_memory - a.buf
              IN  IF r.err # Ok THEN r
                  ELSE [r EXCEPT !.m = memmove(a, r.m, r.a.prev_offset, src, copy_size),
                                 !.oob = r.oob \/ src + copy_size > a.buf_len
                                               \/ r.a.prev_offset + copy_size > a.buf_len]
    ELSE [err |-> "OutOfBounds", ptr |-> NULL, a |-> a, m |-> m, oob |-> FALSE]

resize(a, m, old_memory, old_size, new_size) ==
    resize_align(a, m, old_memory, old_size, new_size, DEFAULT_ALIGNMENT)

\* free that gives the most recent block back to the arena
free_last(a, m, ptr) ==
    [err |-> Ok, ptr |-> NULL, m |-> m, oob |-> FALSE,
     a |-> IF ptr = Wrap(a.buf + a.prev_offset)
           THEN [a EXCEPT !.curr_offset = a.prev_offset] ELSE a]

free(a, m, ptr) == [err |-> Ok, ptr |-> NULL, a |-> a, m |-> m, oob |-> FALSE]

\* free_all that forgets prev_offset
free_all_curr_only(a) == [a EXCEPT !.curr_offset = 0]

free_all(a) == [a EXCEPT !.curr_offset = 0, !.prev_offset = 0]

\* ------------------------------------------------------ TempArenaMemory
\* TempArenaMemory::begin(a)
TempBegin(a) ==
    [arena |-> TRUE, prev_offset |-> a.prev_offset, curr_offset |-> a.curr_offset]

\* end() that writes back curr_offset only
TempEnd_curr_only(t, a) == [a EXCEPT !.curr_offset = t.curr_offset]

\* end() that refuses to move the arena forward
TempEnd_guarded(t, a) ==
    IF t.curr_offset > a.curr_offset THEN a
    ELSE [a EXCEPT !.prev_offset = t.prev_offset, !.curr_offset = t.curr_offset]

\* end() that takes the last block back
TempEnd_pop(t, a) ==
    [a EXCEPT !.prev_offset = t.prev_offset, !.curr_offset = a.prev_offset]

\* TempArenaMemory::end(): the arena after the scope t wrote its snapshot back
TempEnd(t, a) ==
    [a EXCEPT !.prev_offset = t.prev_offset, !.curr_offset = t.curr_offset]

\* --------------------------------------------------- the arena's callers
\* the buffers a caller hands to create(): a base address aligned to 16 and
\* one aligned to 2 only
Bufs == {16, 18}
\* the length of the buffer handed to create()
BufLens == {16}
Aligns == {0, 1, 3, 4, DEFAULT_ALIGNMENT}
\* the alignments tried by resize_align
ResizeAligns == {1, 3}
\* sizes: small ones, the example's 10, the whole buffer, and the largest word
Sizes(a) == (0 .. MaxReq) \cup {10, a.buf_len} \cup {Word - 1}
OldSizes == {0, 2, 10}
\* pointers a caller may pass back: null, the last block, the first block, one
\* past the end of the buffer, one before its base
Ptrs(a) == {NULL, Wrap(a.buf + a.prev_offset), a.buf, a.buf + a.buf_len, a.buf - 1}

ScopeIds == {1, 2}
NoScope == [arena |-> FALSE, prev_offset |-> 0, curr_offset |-> 0]
NoReq == [op |-> "none"]
\* what is remembered of a scope: the offsets at its begin and the first
\* request made inside (while clean: no end() or free_all() since the begin);
\* whether it is begun and not ended (open), the scopes that were open at its
\* begin (outer), and the curr_offset that the end() of one of those has
\* rolled the arena back to while this scope was open (rolled, -1 if none).
\* Of the scope that has just ended: whether it ended in last-in-first-out
\* order (lifo), whether the call before was end() on the same scope (twice)
\* and whether that second call left the arena as it was (same)
NoGhost == [clean |-> FALSE, prev_offset |-> 0, curr_offset |-> 0, first |-> NoReq,
            id |-> 0, open |-> FALSE, outer |-> {}, rolled |-> -1,
            lifo |-> FALSE, twice |-> FALSE, same |-> TRUE]

Running == ub = "none"

\* the callers' record of the blocks they hold: nothing where they keep none,
\* else the blocks in the order the arena returned them. Of a block: its
\* address, the size last obtained for it, the alignment asked for (0 when
\* it came from an in-place resize_align), the scopes that had begun when it
\* was returned (inside), whether a scope has ended since (old), whether
\* an in-place resize_align has changed its size since the last begin
\* (resized), and whether a scope has ended over such a change (cut)
NoBlocks == [kept |-> FALSE, list |-> <<>>]
Block(ptr, size, align) ==
    [ptr |-> ptr, size |-> size, align |-> align,
     inside |-> {s \in ScopeIds : temps[s].arena}, old |-> FALSE, resized |-> FALSE,
     cut |-> FALSE]

\* the place in the list of the most recent block at ptr, 0 if there is none
LastAt(list, ptr) ==
    LET at == {i \in 1 .. Len(list) : list[i].ptr = ptr}
    IN  IF at = {} THEN 0 ELSE CHOOSE i \in at : \A j \in at : j <= i

\* the tests that take resize_align to its in-place branch
InPlace(a, old_memory, old_size, align) ==
    /\ is_power_of_two(align)
    /\ old_memory # NULL /\ old_size # 0
    /\ a.buf <= old_memory /\ old_memory < Wrap(a.buf + a.buf_len)
    /\ Wrap(a.buf + a.prev_offset) = old_memory

\* alloc_align or alloc has returned: a block more when it succeeded
Returned(size, align) ==
    blocks' = IF blocks.kept /\ ret'.err = Ok
              THEN [blocks EXCEPT !.list = Append(@, Block(ret'.ptr, size, align))]
              ELSE blocks

\* resize_align or resize has returned: when it succeeded, the block at
\* old_memory has its new size if it was resized in place, else there is a
\* block more
Resized(old_memory, old_size, new_size, align) ==
    blocks' = IF ~blocks.kept \/ ret'.err # Ok THEN blocks
              ELSE IF InPlace(arena, old_memory, old_size, align)
              THEN IF LastAt(blocks.list, old_memory) # 0
                   THEN [blocks EXCEPT !.list[LastAt(blocks.list, old_memory)] =
                                           [@ EXCEPT !.size = new_size, !.resized = TRUE]]
                   ELSE [blocks EXCEPT !.list = Append(@, Block(ret'.ptr, new_size, 0))]
              ELSE [blocks EXCEPT !.list = Append(@, Block(ret'.ptr, new_size, align))]

\* the blocks left to the callers by the end() of scope s: those returned
\* before its begin, now with a scope ended behind them
RECURSIVE Outlived(_, _)
Outlived(list, s) ==
    IF list = <<>> THEN <<>>
    ELSE IF s \in Head(list).inside THEN Outlived(Tail(list), s)
    ELSE <<[Head(list) EXCEPT !.old = TRUE, !.cut = @ \/ Head(list).resized,
                              !.resized = FALSE]>>
         \o Outlived(Tail(list), s)

\* the blocks as begin() of scope s finds them: all of them before the scope
RECURSIVE Before(_, _)
Before(list, s) ==
    IF list = <<>> THEN <<>>
    ELSE <<[Head(list) EXCEPT !.inside = @ \ {s}, !.resized = FALSE]>>
         \o Before(Tail(list), s)

\* an allocation or a resize was made: it is the first request of every scope
\* begun since the last one
Requested(req) ==
    tghost' = [s \in ScopeIds |->
                 IF tghost[s].clean /\ tghost[s].first = NoReq
                 THEN [tghost[s] EXCEPT !.first = req] ELSE tghost[s]]

\* the call returns r; a write outside the buffer either kills the process
\* where it stands or lands in foreign memory and the call returns
Return(op, res) ==
    LET r == res
    IN  \/ /\ arena' = r.a
           /\ mem' = r.m
           /\ ret' = [op |-> op, err |-> r.err, ptr |-> r.ptr]
           /\ ub' = IF r.oob THEN "corrupt" ELSE "none"
        \/ /\ r.oob
           /\ ub' = "fault"
           /\ ret' = [op |-> op, err |-> "Fault", ptr |-> NULL]
           /\ UNCHANGED <<arena, mem>>

\* after create(b, n) over a buffer whose bytes all hold v
InitCallers(bufs, lens, bytes, record) ==
    /\ blocks = record
    /\ \E b \in bufs, n \in lens : arena = create(b, n)
    /\ \E v \in bytes : mem = [i \in 0 .. (arena.buf_len - 1) |-> v]
    /\ ret = [op |-> "create", err |-> Ok, ptr |-> NULL]
    /\ ub = "none"
    /\ temps = [s \in ScopeIds |-> NoScope]
    /\ tghost = [s \in ScopeIds |-> NoGhost]
    /\ ended = NoGhost
    /\ arrays = [a \in ArrayIds |-> NoArray]
    /\ heap = {}
    /\ deleted = FALSE
    /\ aborted = FALSE
    /\ growth = NoGrowth

\* the same, with callers that keep no count of their blocks
InitArena(bufs, lens, bytes) == InitCallers(bufs, lens, bytes, NoBlocks)

AllocAlign(size, align) ==
    /\ Running
    /\ UNCHANGED avars
    /\ Return("alloc_align", alloc_align(arena, mem, size, align))
    /\ Requested([op |-> "alloc_align", size |-> size, align |-> align,
                  err |-> ret'.err, ptr |-> ret'.ptr])
    /\ Returned(size, align)
    /\ ended' = NoGhost
    /\ UNCHANGED temps

Alloc(size) ==
    /\ Running
    /\ UNCHANGED avars
    /\ Return("alloc", alloc(arena, mem, size))
    /\ Requested([op |-> "alloc_align", size |-> size, align |-> DEFAULT_ALIGNMENT,
                  err |-> ret'.err, ptr |-> ret'.ptr])
    /\ Returned(size, DEFAULT_ALIGNMENT)
    /\ ended' = NoGhost
    /\ UNCHANGED temps

ResizeAlign(old_memory, old_size, new_size, align) ==
    /\ Running
    /\ UNCHANGED avars
    /\ Return("resize_align", resize_align(arena, mem, old_memory, old_size, new_size, align))
    /\ Requested([op |-> "resize_align"])
    /\ Resized(old_memory, old_size, new_size, align)
    /\ ended' = NoGhost
    /\ UNCHANGED temps

Resize(old_memory, old_size, new_size) ==
    /\ Running
    /\ UNCHANGED avars
    /\ Return("resize", resize(arena, mem, old_memory, old_size, new_size))
    /\ Requested([op |-> "resize_align"])
    /\ Resized(old_memory, old_size, new_size, DEFAULT_ALIGNMENT)
    /\ ended' = NoGhost
    /\ UNCHANGED temps

Free(ptr) ==
    /\ Running
    /\ UNCHANGED avars
    /\ Return("free", free(arena, mem, ptr))
    /\ ended' = NoGhost
    /\ UNCHANGED <<temps, tghost, blocks>>

FreeAll ==
    /\ Running
    /\ UNCHANGED avars
    /\ arena' = free_all(arena)
    /\ ret' = [op |-> "free_all", err |-> Ok, ptr |-> NULL]
    /\ tghost' = [s \in ScopeIds |-> [tghost[s] EXCEPT !.clean = FALSE]]
    /\ ended' = NoGhost
    /\ blocks' = [blocks EXCEPT !.list = <<>>]
    /\ UNCHANGED <<mem, ub, temps>>

\* the owner of the most recent block of a short buffer writes into it
Fill ==
    /\ Running
    /\ UNCHANGED avars
    /\ arena.buf_len <= MaxBytes
    /\ arena.prev_offset < arena.curr_offset
    /\ mem' = [i \in DOMAIN mem |->
                IF arena.prev_offset <= i /\ i < arena.curr_offset THEN 1 ELSE mem[i]]
    /\ mem' # mem
    /\ UNCHANGED <<arena, ret, ub, temps, tghost, ended, blocks>>

\* auto temp = TempArenaMemory::begin(&arena)
Begin(s) ==
    /\ Running
    /\ UNCHANGED avars
    /\ temps' = [temps EXCEPT ![s] = TempBegin(arena)]
    /\ tghost' = [t \in ScopeIds |->
                    IF t = s
                    THEN [NoGhost EXCEPT !.clean = TRUE, !.id = s, !.open = TRUE,
                                         !.prev_offset = arena.prev_offset,
                                         !.curr_offset = arena.curr_offset,
                                         !.outer = {o \in ScopeIds \ {s} : tghost[o].open}]
                    ELSE [tghost[t] EXCEPT !.outer = @ \ {s}]]
    /\ ret' = [op |-> "begin", err |-> Ok, ptr |-> NULL]
    /\ ended' = NoGhost
    /\ blocks' = [blocks EXCEPT !.list = Before(@, s)]
    /\ UNCHANGED <<arena, mem, ub>>

\* temp.end()
End(s) ==
    /\ Running
    /\ UNCHANGED avars
    /\ temps[s].arena
    /\ arena' = TempEnd(temps[s], arena)
    /\ ret' = [op |-> "end", err |-> Ok, ptr |-> NULL]
    /\ ended' = [tghost[s] EXCEPT
                     !.lifo = /\ tghost[s].open /\ tghost[s].rolled = -1
                              /\ \A t \in ScopeIds \ {s} :
                                     ~(tghost[t].open /\ s \in tghost[t].outer),
                     !.twice = ret.op = "end" /\ ended.id = s,
                     !.same = ret.op = "end" /\ ended.id = s => arena' = arena]
    /\ tghost' = [t \in ScopeIds |->
                    [tghost[t] EXCEPT
                        !.clean = FALSE,
                        !.open = IF t = s THEN FALSE ELSE @,
                        !.rolled = IF t # s /\ tghost[t].open /\ tghost[s].open
                                      /\ s \in tghost[t].outer
                                   THEN temps[s].curr_offset ELSE @]]
    /\ blocks' = [blocks EXCEPT !.list = Outlived(@, s)]
    /\ UNCHANGED <<mem, ub, temps>>

\* the arena over the 16-byte buffer, its bytes zero from the start, or over
\* a short buffer of arbitrary bytes that its users write
Init ==
    \/ InitArena(Bufs, BufLens, {0})
    \/ InitArena(Bufs, {MaxBytes}, {0, 1})

Next ==
    \/ \E size \in Sizes(arena), align \in Aligns : AllocAlign(size, align)
    \/ \E size \in Sizes(arena) : Alloc(size)
    \/ \E p \in Ptrs(arena), os \in OldSizes, ns \in Sizes(arena), align \in ResizeAligns :
           ResizeAlign(p, os, ns, align)
    \/ \E p \in Ptrs(arena), os \in OldSizes, ns \in Sizes(arena) : Resize(p, os, ns)
    \/ \E p \in Ptrs(arena) : Free(p)
    \/ FreeAll
    \/ Fill

Spec == Init /\ [][Next]_vars

\* the arena with a temporary scope begun and ended around the requests
ScopeSizes == {MaxReq + 1, 10, Word - 1}
ScopeAligns == {1, 4}
ScopePtrs(a) == {Wrap(a.buf + a.prev_offset), a.buf}

InitScope == InitArena(Bufs, BufLens, {0})

NextScope ==
    \/ \E size \in ScopeSizes, align \in ScopeAligns : AllocAlign(size, align)
    \/ \E size \in ScopeSizes : Alloc(size)
    \/ \E p \in ScopePtrs(arena), ns \in ScopeSizes : ResizeAlign(p, 2, ns, 1)
    \/ \E p \in ScopePtrs(arena), ns \in ScopeSizes : Resize(p, 2, ns)
    \/ \E p \in ScopePtrs(arena) : Free(p)
    \/ FreeAll
    \/ Begin(1)
    \/ End(1)

SpecScope == InitScope /\ [][NextScope]_vars

\* the arena over a short buffer with two scopes, begun and ended in any
\* order around allocations
NestedSizes == {MaxReq + 1}

InitNested == InitArena({DEFAULT_ALIGNMENT}, {MaxBytes}, {0})

NextNested ==
    \/ \E size \in NestedSizes : AllocAlign(size, 1)
    \/ FreeAll
    \/ \E s \in ScopeIds : Begin(s)
    \/ \E s \in ScopeIds : End(s)

SpecNested == InitNested /\ [][NextNested]_vars

\* the arena with callers that keep count of the blocks they were given, at
\* most MaxLive of them, around one scope
BlockSizes == {1, MaxReq + 2, Word - 1}
BlockAligns == {1, 4}
BlockPtrs(a) == {Wrap(a.buf + a.prev_offset), a.buf}

InitBlocks == InitCallers(Bufs, {MaxBytes}, {0}, [NoBlocks EXCEPT !.kept = TRUE])

NextBlocks ==
    \/ \E size \in BlockSizes, align \in BlockAligns :
           Len(blocks.list) < MaxLive /\ AllocAlign(size, align)
    \/ \E p \in BlockPtrs(arena), ns \in BlockSizes :
           Len(blocks.list) < MaxLive /\ ResizeAlign(p, 1, ns, 1)
    \/ FreeAll
    \/ Begin(1)
    \/ End(1)

SpecBlocks == InitBlocks /\ [][NextBlocks]_vars

\* align_forward called on its own, with any address and any alignment of
\* the word
AlignForward(address, align) ==
    /\ ret' = [op |-> "align_forward", err |-> align_forward(address, align).err,
               ptr |-> align_forward(address, align).value,
               address |-> address, align |-> align]
    /\ UNCHANGED <<arena, mem, ub, temps, tghost, ended, blocks>>
    /\ UNCHANGED avars

InitAlign == InitArena({DEFAULT_ALIGNMENT}, BufLens, {0})

\* one call, from the arena as create() left it
NextAlign ==
    /\ Running /\ ret.op = "create"
    /\ \E address \in 0 .. (Word - 1), align \in 0 .. (Word - 1) :
           AlignForward(address, align)

SpecAlign == InitAlign /\ [][NextAlign]_vars

\* ------------------------------------------------------------- DynArray<T>
\* the model's T is int
SizeofT == 4
AlignofT == 4
\* DynArray::DEFAULT_CAPACITY
DEFAULT_CAPACITY == 8
\* DynArray::GROWTH_FACTOR = 1.5f, as numerator and denominator
GROWTH_FACTOR == <<3, 2>>
DynArrayError ==
    {"OutOfMemory", "OutOfRange", "InvalidCapacity", "InvalidSize", "EmptyArray"}

\* heap blocks that exist at the same time
MaxBlocks == 3
\* what malloc returns: addresses at the top of the address space
HeapPtrs == (Word - MaxBlocks) .. (Word - 1)

\* the memory the arrays work in; bad is the first misuse of memory that the
\* call under way has committed: "overflow" a write past the end of a block,
\* "free" a free of what malloc did not return or of a block already freed,
\* "delete" a delete of an arena already deleted,
\* "dangling" a call through a deleted arena, "lifetime" a slot constructed
\* twice, or read or destroyed while it holds no element
World ==
    [arrays |-> arrays, heap |-> heap, arena |-> arena, mem |-> mem,
     deleted |-> deleted, bad |-> "none"]

Fail(w, kind) == IF w.bad = "none" /\ kind # "none" THEN [w EXCEPT !.bad = kind] ELSE w

\* malloc(bytes): a block no one holds, or null when the heap refuses (ok is
\* the heap's answer); failed is the test the caller makes, !new_data
malloc(w, bytes, ok) ==
    LET unused == HeapPtrs \ w.heap
    IN  IF ok /\ unused # {}
        THEN LET p == CHOOSE x \in unused : \A y \in unused : x <= y
             IN  [failed |-> FALSE, ptr |-> p, w |-> [w EXCEPT !.heap = @ \cup {p}]]
        ELSE [failed |-> TRUE, ptr |-> NULL, w |-> w]

\* free(ptr) that gives nothing back
heap_free_kept(w, ptr) == w

\* free(ptr) of the C library
heap_free(w, ptr) ==
    IF ptr = NULL THEN w
    ELSE IF ptr \in w.heap THEN [w EXCEPT !.heap = @ \ {ptr}]
    ELSE Fail(w, "free")

\* the world after the arena answered r; failed is the caller's !alloc_result
arena_result(w, r) ==
    [failed |-> r.err # Ok, ptr |-> r.ptr,
     w |-> Fail(Fail([w EXCEPT !.arena = r.a, !.mem = r.m],
                     IF w.deleted THEN "dangling" ELSE "none"),
                IF r.oob THEN "overflow" ELSE "none")]

\* allocator->alloc_align(bytes, alignof(T))
arena_alloc(w, bytes) == arena_result(w, alloc_align(w.arena, w.mem, bytes, AlignofT))

\* new storage for array a: from its arena if it has one, else from malloc
allocate(w, a, bytes, ok) ==
    IF w.arrays[a].allocator THEN arena_alloc(w, bytes) ELSE malloc(w, bytes, ok)

\* ------------------------------------------------ the slots of a block
\* slot i of the block is cells[i + 1]
Storage(t) == [cells |-> t.cells, bytes |-> t.bytes, bad |-> "none"]
RECURSIVE uninitialized(_)
uninitialized(n) == IF n = 0 THEN <<>> ELSE Append(uninitialized(n - 1), Uninit)
Fresh(n, bytes) == [cells |-> uninitialized(n), bytes |-> bytes, bad |-> "none"]
Flag(st, kind) == IF st.bad = "none" THEN [st EXCEPT !.bad = kind] ELSE st
Live(st, i) == i < Len(st.cells) /\ st.cells[i + 1] # Uninit

\* new (data + i) T(v)
placement_new(st, i, v) ==
    IF i >= Len(st.cells) THEN Flag(st, "overflow")
    ELSE LET st1 == [st EXCEPT !.cells[i + 1] = v]
         IN  IF (i + 1) * SizeofT > st.bytes THEN Flag(st1, "overflow")
             ELSE IF st.cells[i + 1] # Uninit THEN Flag(st1, "lifetime")
             ELSE st1

\* data[i].~T()
destroy(st, i) ==
    IF Live(st, i) THEN [st EXCEPT !.cells[i + 1] = Uninit] ELSE Flag(st, "lifetime")

\* data[i] read as a T: the value and the storage, flagged when slot i is dead
value_at(st, i) == IF i < Len(st.cells) THEN st.cells[i + 1] ELSE Uninit
read(st, i) == IF Live(st, i) THEN st ELSE Flag(st, "lifetime")

\* for (i = lo; i < hi; ++i) data[i].~T()
RECURSIVE destroy_range(_, _, _)
destroy_range(st, lo, hi) ==
    IF lo >= hi THEN st ELSE destroy_range(destroy(st, lo), lo + 1, hi)

\* for (i = lo; i < hi; ++i) new (data + i) T(value)
RECURSIVE fill_range(_, _, _, _)
fill_range(st, lo, hi, value) ==
    IF lo >= hi THEN st ELSE fill_range(placement_new(st, lo, value), lo + 1, hi, value)

\* for (i = lo; i < n; ++i) { new (new_data + i) T(std::move(data[i])); data[i].~T(); }
RECURSIVE relocate(_, _, _, _)
relocate(old, new, i, n) ==
    IF i >= n THEN [old |-> old, new |-> new]
    ELSE relocate(destroy(read(old, i), i),
                  placement_new(new, i, value_at(old, i)), i + 1, n)

\* for (i = lo; i < n; ++i) new (data + i) T(other.data[i])
RECURSIVE copy_from(_, _, _, _)
copy_from(st, other, i, n) ==
    IF i >= n THEN st
    ELSE copy_from(Flag(placement_new(st, i, value_at(other, i)), read(other, i).bad),
                   other, i + 1, n)

\* the array t over the storage st, and what went wrong noted in the world
Stored(t, st) == [t EXCEPT !.cells = st.cells, !.bytes = st.bytes]

\* ---------------------------------------------------------------- float
\* a float holds 24 significant bits; values are counted in halves, so that
\* capacity * 1.5f is a whole number of them
FloorLog2(h) == CHOOSE k \in 0 .. 29 : 2 ^ k <= h /\ h < 2 ^ (k + 1)
\* the float nearest to h halves, ties to the even significand
round_to_float(h) ==
    IF h < 2 ^ 24 THEN h
    ELSE LET q   == 2 ^ (FloorLog2(h) - 23)
             lo  == (h \div q) * q
             rem == h - lo
         IN  IF 2 * rem < q THEN lo
             ELSE IF 2 * rem > q THEN lo + q
             ELSE IF (lo \div q) % 2 = 0 THEN lo ELSE lo + q
\* capacity * GROWTH_FACTOR: capacity converted to float, the product rounded
times_GROWTH_FACTOR(capacity) ==
    round_to_float((round_to_float(2 * capacity) * GROWTH_FACTOR[1]) \div GROWTH_FACTOR[2])
\* static_cast<size_t>(x) of a float of h halves that fits the word
static_cast_size_t(h) == h \div 2

\* --------------------------------------------------- DynArray<T> methods
\* each takes the world w and the array a it is called on, and returns err
\* and the world after the call; ok is the answer of malloc, should it be asked
Done(w) == [err |-> Ok, w |-> w]
Failed(err, w) == [err |-> err, w |-> w]

\* the members as a constructor's initializer list leaves them
Members(allocator_arg, take_ownership) ==
    [NoArray EXCEPT !.life = "live", !.allocator = allocator_arg,
                    !.owns_allocator = take_ownership]

\* array a of world w with storage st and size n, what st suffered noted
Updated(w, a, st, n) ==
    Fail([w EXCEPT !.arrays[a] = [Stored(w.arrays[a], st) EXCEPT !.size = n]], st.bad)

\* what an accessor returns: a reference to slot ref of the block, or an error
Referred(w, ref) == [err |-> Ok, w |-> w, ref |-> ref]
Refused(err, w) == [err |-> err, w |-> w, ref |-> NULL]

\* empty()
empty(w, a) == w.arrays[a].size = 0

\* operator[](index), both forms: the exception is the result "out_of_range"
subscript(w, a, index) ==
    IF index >= w.arrays[a].size THEN Refused("out_of_range", w) ELSE Referred(w, index)

\* at with the test "index > size"
at_inclusive(w, a, index) ==
    IF index > w.arrays[a].size THEN Refused("OutOfRange", w) ELSE Referred(w, index)

\* at(index), both forms
at(w, a, index) ==
    IF index >= w.arrays[a].size THEN Refused("OutOfRange", w) ELSE Referred(w, index)

\* front(), both forms
front(w, a) == IF empty(w, a) THEN Refused("EmptyArray", w) ELSE Referred(w, 0)

\* back(), both forms
back(w, a) ==
    IF empty(w, a) THEN Refused("EmptyArray", w) ELSE Referred(w, w.arrays[a].size - 1)

\* moved_into without the elements: the new block is installed as malloc gave it
moved_into_unmoved(w, a, new_data, new_capacity, moved, free_old) ==
    [(IF free_old THEN heap_free(w, w.arrays[a].data) ELSE w)
        EXCEPT !.arrays[a] =
            [w.arrays[a] EXCEPT !.data = new_data, !.capacity = new_capacity,
                                !.cells = uninitialized(Len(moved.new.cells)),
                                !.bytes = moved.new.bytes]]

\* the end of reserve and of shrink_to_fit: the elements are in the new
\* block (moved), the old block is freed if free_old, the members updated
moved_into(w, a, new_data, new_capacity, moved, free_old) ==
    Fail(Fail([(IF free_old THEN heap_free(w, w.arrays[a].data) ELSE w)
                  EXCEPT !.arrays[a] =
                      [Stored(w.arrays[a], moved.new) EXCEPT !.data = new_data,
                                                             !.capacity = new_capacity]],
              moved.new.bad),
         moved.old.bad)

\* reserve from "if (allocator)" on, got being the answer of the allocation
reserve_got(w, a, new_capacity, got) ==
    IF got.failed THEN Failed("OutOfMemory", got.w)
    ELSE Done(moved_into(got.w, a, got.ptr, new_capacity,
                         relocate(Storage(w.arrays[a]),
                                  Fresh(new_capacity, Wrap(SizeofT * new_capacity)),
                                  0, w.arrays[a].size),
                         w.arrays[a].data # NULL /\ ~w.arrays[a].allocator))

reserve(w, a, new_capacity, ok) ==
    IF new_capacity <= w.arrays[a].capacity THEN Done(w)
    ELSE reserve_got(w, a, new_capacity,
                     allocate(w, a, Wrap(SizeofT * new_capacity), ok))

\* the capacity grow() asks reserve for
grow_capacity(capacity, min_capacity) ==
    LET new_capacity == IF capacity = 0 THEN DEFAULT_CAPACITY
                        ELSE static_cast_size_t(times_GROWTH_FACTOR(capacity)) + 1
    IN  IF new_capacity < min_capacity THEN min_capacity ELSE new_capacity

grow(w, a, min_capacity, ok) ==
    reserve(w, a, grow_capacity(w.arrays[a].capacity, min_capacity), ok)

\* "if (size >= capacity) grow(size + 1)" of push_back and insert
grown(w, a, ok) ==
    IF w.arrays[a].size >= w.arrays[a].capacity
    THEN grow(w, a, Wrap(w.arrays[a].size + 1), ok)
    ELSE Done(w)

\* resize_reserved that sets the size and builds no element
resize_reserved_unfilled(r, a, count, value) ==
    IF r.err # Ok THEN r
    ELSE Done(Updated(r.w, a,
                      destroy_range(Storage(r.w.arrays[a]), count, r.w.arrays[a].size),
                      count))

\* resize after its reserve returned r
resize_reserved(r, a, count, value) ==
    IF r.err # Ok THEN r
    ELSE LET t == r.w.arrays[a]
         IN  Done(Updated(r.w, a,
                          IF count > t.size
                          THEN fill_range(Storage(t), t.size, count, value)
                          ELSE destroy_range(Storage(t), count, t.size),
                          count))

DynArray_resize(w, a, count, value, ok) ==
    resize_reserved(IF count > w.arrays[a].capacity THEN reserve(w, a, count, ok)
                    ELSE Done(w),
                    a, count, value)

\* shrink_got that records the old capacity for the new block
shrink_got_wide(w, a, got) ==
    IF got.failed THEN Failed("OutOfMemory", got.w)
    ELSE Done(moved_into(got.w, a, got.ptr, w.arrays[a].capacity,
                         relocate(Storage(w.arrays[a]),
                                  Fresh(w.arrays[a].size, Wrap(SizeofT * w.arrays[a].size)),
                                  0, w.arrays[a].size),
                         ~w.arrays[a].allocator))

\* shrink_to_fit from "if (allocator)" on
shrink_got(w, a, got) ==
    IF got.failed THEN Failed("OutOfMemory", got.w)
    ELSE Done(moved_into(got.w, a, got.ptr, w.arrays[a].size,
                         relocate(Storage(w.arrays[a]),
                                  Fresh(w.arrays[a].size, Wrap(SizeofT * w.arrays[a].size)),
                                  0, w.arrays[a].size),
                         ~w.arrays[a].allocator))

shrink_to_fit(w, a, ok) ==
    LET t == w.arrays[a]
    IN  IF t.size = t.capacity THEN Done(w)
        ELSE IF t.size = 0
        THEN Done([(IF ~t.allocator THEN heap_free(w, t.data) ELSE w)
                      EXCEPT !.arrays[a] = [t EXCEPT !.data = NULL, !.capacity = 0,
                                                     !.cells = <<>>, !.bytes = 0]])
        ELSE shrink_got(w, a, allocate(w, a, Wrap(SizeofT * t.size), ok))

\* clear() as a step of other methods: the world after it
cleared(w, a) ==
    Updated(w, a, destroy_range(Storage(w.arrays[a]), 0, w.arrays[a].size), 0)

clear(w, a) == Done(cleared(w, a))

\* constructed_back with the element built in slot 0 instead of slot size
constructed_front(r, a, value) ==
    IF r.err # Ok THEN r
    ELSE Done(Updated(r.w, a, placement_new(Storage(r.w.arrays[a]), 0, value),
                      Wrap(r.w.arrays[a].size + 1)))

\* "new (data + size) T(value); ++size" after the growth returned r
constructed_back(r, a, value) ==
    IF r.err # Ok THEN r
    ELSE LET t == r.w.arrays[a]
         IN  Done(Updated(r.w, a, placement_new(Storage(t), t.size, value),
                          Wrap(t.size + 1)))

\* push_back(const T& value)
push_back(w, a, value, ok) == constructed_back(grown(w, a, ok), a, value)

\* push_back(T&& value): for int, moving the value is copying it
push_back_move(w, a, value, ok) == constructed_back(grown(w, a, ok), a, value)

\* pop_back() without the test of size
pop_back_unchecked(w, a) ==
    IF w.arrays[a].size = 0 THEN Done(w)
    ELSE Done(Updated(w, a, destroy(Storage(w.arrays[a]), w.arrays[a].size - 1),
                      w.arrays[a].size - 1))

\* pop_back that destroys the first element instead of the last
pop_back_first(w, a) ==
    IF w.arrays[a].size = 0 THEN Failed("EmptyArray", w)
    ELSE Done(Updated(w, a, destroy(Storage(w.arrays[a]), 0), w.arrays[a].size - 1))

pop_back(w, a) ==
    LET t == w.arrays[a]
    IN  IF t.size = 0 THEN Failed("EmptyArray", w)
        ELSE Done(Updated(w, a, destroy(Storage(t), t.size - 1), t.size - 1))

\* for (i = size; i > position; --i) { new (data + i) T(std::move(data[i - 1])); data[i - 1].~T(); }
RECURSIVE shift_right(_, _, _)
shift_right(st, i, position) ==
    IF i <= position THEN st
    ELSE shift_right(destroy(placement_new(read(st, i - 1), i, value_at(st, i - 1)), i - 1),
                     i - 1, position)

\* inserted without the shift: the element is built over the one at position
inserted_unshifted(r, a, position, value) ==
    IF r.err # Ok THEN r
    ELSE Done(Updated(r.w, a, placement_new(Storage(r.w.arrays[a]), position, value),
                      Wrap(r.w.arrays[a].size + 1)))

\* insert after the growth returned r
inserted(r, a, position, value) ==
    IF r.err # Ok THEN r
    ELSE LET t == r.w.arrays[a]
         IN  Done(Updated(r.w, a,
                          placement_new(IF position < t.size
                                        THEN shift_right(Storage(t), t.size, position)
                                        ELSE Storage(t),
                                        position, value),
                          Wrap(t.size + 1)))

insert(w, a, position, value, ok) ==
    IF position > w.arrays[a].size THEN Failed("OutOfRange", w)
    ELSE inserted(grown(w, a, ok), a, position, value)

\* "const T& value" bound by the caller to data[index] of the array itself,
\* as in a.push_back(a[0]): the reference is an address, and T(value) reads
\* what is at that address when the element is constructed. relocated says
\* that reserve has moved the elements to another block, destroyed those of
\* the old one and, on the heap, freed it: the read is then of a destroyed
\* element ("lifetime") or of freed memory ("dangling"), and yields whatever
\* is found there (found)
relocated(w, a, r) == r.err = Ok /\ w.arrays[a].size >= w.arrays[a].capacity
stale(w, a) == IF w.arrays[a].allocator THEN "lifetime" ELSE "dangling"

\* push_back(const T& value) with value bound to data[index]
push_back_ref(w, a, index, ok, found) ==
    LET r == grown(w, a, ok)
    IN  IF r.err # Ok THEN r
        ELSE IF relocated(w, a, r)
        THEN Done(Fail(constructed_back(r, a, found).w, stale(w, a)))
        ELSE constructed_back(r, a, value_at(Storage(r.w.arrays[a]), index))

\* the block of t when insert's loop has shifted the elements from position on
shifted(t, position) ==
    IF position < t.size THEN shift_right(Storage(t), t.size, position) ELSE Storage(t)

\* insert(position, const T& value) with value bound to data[index]: without
\* relocation the read comes after the shift, from a slot that holds the
\* element shifted into it or, at position itself, the element moved from
\* and destroyed
insert_ref(w, a, position, index, ok, found) ==
    LET r == grown(w, a, ok)
    IN  IF position > w.arrays[a].size THEN Failed("OutOfRange", w)
        ELSE IF r.err # Ok THEN r
        ELSE IF relocated(w, a, r)
        THEN Done(Fail(inserted(r, a, position, found).w, stale(w, a)))
        ELSE LET st == shifted(r.w.arrays[a], position)
             IN  IF Live(st, index)
                 THEN inserted(r, a, position, value_at(st, index))
                 ELSE Done(Fail(inserted(r, a, position, found).w, "lifetime"))

\* for (i = first; i < size - count; ++i) { new (data + i) T(std::move(data[i + count])); data[i + count].~T(); }
RECURSIVE shift_left(_, _, _, _)
shift_left(st, i, n, count) ==
    IF i >= n THEN st
    ELSE shift_left(destroy(placement_new(read(st, i + count), i, value_at(st, i + count)),
                            i + count),
                    i + 1, n, count)

\* erase_range that shifts the tail over the range without destroying it
erase_range_undestroyed(w, a, first, last) ==
    IF first >= w.arrays[a].size \/ last > w.arrays[a].size \/ first > last
    THEN Failed("OutOfRange", w)
    ELSE Done(Updated(w, a,
                      shift_left(Storage(w.arrays[a]), first,
                                 w.arrays[a].size - (last - first), last - first),
                      w.arrays[a].size - (last - first)))

\* erase_range that destroys the range and leaves the tail where it is
erase_range_unshifted(w, a, first, last) ==
    IF first >= w.arrays[a].size \/ last > w.arrays[a].size \/ first > last
    THEN Failed("OutOfRange", w)
    ELSE Done(Updated(w, a, destroy_range(Storage(w.arrays[a]), first, last),
                      w.arrays[a].size - (last - first)))

erase_range(w, a, first, last) ==
    LET t == w.arrays[a]
    IN  IF first >= t.size \/ last > t.size \/ first > last
        THEN Failed("OutOfRange", w)
        ELSE IF first = last THEN Done(w)
        ELSE Done(Updated(w, a,
                          shift_left(destroy_range(Storage(t), first, last),
                                     first, t.size - (last - first), last - first),
                          t.size - (last - first)))

erase(w, a, position) == erase_range(w, a, position, Wrap(position + 1))

\* ------------------------------------------- construction and destruction
\* a constructor returns nothing: err is the result of the reserve it makes,
\* which it hands to assert

\* the world in which array a has just had its members initialized
Initialized(w, a, allocator_arg, take_ownership) ==
    [w EXCEPT !.arrays[a] = Members(allocator_arg, take_ownership)]

\* DynArray()
DynArray_default(w, a, ok) ==
    reserve(Initialized(w, a, FALSE, FALSE), a, DEFAULT_CAPACITY, ok)

\* DynArray(size_t initial_capacity)
DynArray_capacity(w, a, initial_capacity, ok) ==
    reserve(Initialized(w, a, FALSE, FALSE), a, initial_capacity, ok)

\* for (const auto& element : elements) push_back(element), results dropped
RECURSIVE push_all(_, _, _, _)
push_all(w, a, elements, ok) ==
    IF elements = <<>> THEN w
    ELSE push_all(push_back(w, a, Head(elements), ok).w, a, Tail(elements), ok)

\* the initializer-list constructor after its reserve returned r
list_reserved(r, a, elements, ok) ==
    IF r.err = Ok THEN Done(push_all(r.w, a, elements, ok)) ELSE r

\* DynArray(std::initializer_list<T> elements)
DynArray_list(w, a, elements, ok) ==
    list_reserved(reserve(Initialized(w, a, FALSE, FALSE), a, Len(elements), ok),
                  a, elements, ok)

\* DynArray(LinearAllocator* alloc, bool take_ownership)
DynArray_alloc(w, a, allocator_arg, take_ownership, ok) ==
    reserve(Initialized(w, a, allocator_arg, take_ownership), a, DEFAULT_CAPACITY, ok)

\* DynArray(size_t initial_capacity, LinearAllocator* alloc, bool take_ownership)
DynArray_capacity_alloc(w, a, initial_capacity, allocator_arg, take_ownership, ok) ==
    reserve(Initialized(w, a, allocator_arg, take_ownership), a, initial_capacity, ok)

\* the members after "data = nullptr; size = 0; capacity = 0; allocator =
\* nullptr; owns_allocator = false"
Reset(t) ==
    [t EXCEPT !.data = NULL, !.size = 0, !.capacity = 0, !.allocator = FALSE,
              !.owns_allocator = FALSE, !.cells = <<>>, !.bytes = 0]

\* delete allocator
delete_allocator(w) ==
    IF w.deleted THEN Fail(w, "delete") ELSE [w EXCEPT !.deleted = TRUE]

\* "if (!allocator) free(data); else if (owns_allocator) delete allocator;"
release(w, a) ==
    IF ~w.arrays[a].allocator THEN heap_free(w, w.arrays[a].data)
    ELSE IF w.arrays[a].owns_allocator THEN delete_allocator(w)
    ELSE w

\* the destructor after its elements are destroyed and its storage released
reset(w, a) == [w EXCEPT !.arrays[a] = [Reset(w.arrays[a]) EXCEPT !.life = "destroyed"]]

\* ~DynArray()
DynArray_destroy(w, a) == Done(reset(release(cleared(w, a), a), a))

\* "for (i < other.size) new (data + i) T(other.data[i]); size = other.size"
\* after the reserve returned r
copied(r, a, other) ==
    IF r.err # Ok THEN r
    ELSE LET t == r.w.arrays[a]
             o == r.w.arrays[other]
         IN  Done(Updated(r.w, a, copy_from(Storage(t), Storage(o), 0, o.size), o.size))

\* DynArray(const DynArray& other)
DynArray_copy(w, a, other, ok) ==
    copied(reserve(Initialized(w, a, FALSE, FALSE), a, w.arrays[other].capacity, ok),
           a, other)

\* taken without "other.size = 0"
taken_size_kept(w, a, other) ==
    [w EXCEPT !.arrays[a] = w.arrays[other],
              !.arrays[other] = [Reset(w.arrays[other]) EXCEPT !.size = w.arrays[other].size]]

\* "data = other.data; ...; other.data = nullptr; ..."
taken(w, a, other) ==
    [w EXCEPT !.arrays[a] = w.arrays[other], !.arrays[other] = Reset(w.arrays[other])]

\* DynArray(DynArray&& other)
DynArray_move(w, a, other) == Done(taken(w, a, other))

\* operator=(const DynArray& other)
copy_assign(w, a, other, ok) ==
    IF a = other THEN Done(w)
    ELSE copied(reserve(cleared(w, a), a, w.arrays[other].capacity, ok), a, other)

\* move_assign that keeps the destination's block and arena
move_assign_unreleased(w, a, other) ==
    IF a = other THEN Done(w) ELSE Done(taken(cleared(w, a), a, other))

\* operator=(DynArray&& other)
move_assign(w, a, other) ==
    IF a = other THEN Done(w)
    ELSE Done(taken(release(cleared(w, a), a), a, other))

\* ------------------------------------------------- the users of the arrays
\* most elements an array is given, alone and beside another array
MaxSize == 4
MaxPairSize == 2
\* the values of the elements
Vals == {1, 2}
\* initial capacities passed to the constructors
InitialCapacities == {0, 1, 3}
\* initializer lists
Lists == {<<>>, <<1>>, <<1, 2>>}
\* capacities asked of reserve: small ones, and one whose size in bytes does
\* not fit the word
ReserveCaps == {2, 5, Word \div SizeofT + 1}

\* misuse of memory that the language leaves undefined
MemoryUB == {"overflow", "free", "delete", "dangling"}
ArrayRunning == Running /\ ~aborted
ArrayOps ==
    {"DynArray", "~DynArray", "copy", "move", "copy_assign", "move_assign",
     "reserve", "resize", "shrink_to_fit", "clear", "push_back", "pop_back",
     "insert", "erase", "erase_range", "operator[]", "at", "front", "back"}
\* the live elements of t, in index order
Elements(t) == SubSeq(t.cells, 1, t.size)

\* the call op on array a ends with r. A write outside a block, a bad
\* free or a call through a deleted arena either goes unnoticed or kills the
\* process on the spot; a constructor whose reserve failed aborts through
\* assert, or goes on where NDEBUG has removed the assert.
\* ret keeps, beside the result, whether the call gave the array another
\* block (moved) and, for a pop_back, whether the call before it was a
\* push_back on the same array that succeeded, in place or by moving (after),
\* and the positions or the count the caller passed (arg).
ArrayReturn(op, a, r, asserts, arg) ==
    LET call == [op |-> op, err |-> r.err, ptr |-> NULL, self |-> a,
                 bad |-> r.w.bad, arg |-> arg,
                 moved |-> r.w.arrays[a].data # arrays[a].data,
                 after |-> IF op = "pop_back" /\ ret.op = "push_back" /\ ret.err = Ok
                              /\ ret.self = a
                           THEN IF ret.moved THEN "moved" ELSE "in place"
                           ELSE "no"]
    IN  /\ UNCHANGED <<temps, tghost, ended, growth, blocks>>
        /\ \/ /\ arrays' = r.w.arrays /\ heap' = r.w.heap /\ arena' = r.w.arena
              /\ mem' = r.w.mem /\ deleted' = r.w.deleted
              /\ ret' = call
              /\ ub' = IF r.w.bad \in MemoryUB THEN "corrupt" ELSE "none"
              /\ UNCHANGED aborted
           \/ /\ r.w.bad \in MemoryUB
              /\ ub' = "fault"
              /\ ret' = [call EXCEPT !.err = "Fault"]
              /\ UNCHANGED <<arrays, heap, arena, mem, deleted, aborted>>
           \/ /\ asserts /\ r.err # Ok
              /\ aborted' = TRUE
              /\ ret' = [call EXCEPT !.err = "Abort"]
              /\ arrays' = r.w.arrays /\ heap' = r.w.heap /\ arena' = r.w.arena
              /\ mem' = r.w.mem /\ deleted' = r.w.deleted
              /\ UNCHANGED ub

Unbuilt(a) == ArrayRunning /\ arrays[a].life = "none"
Built(a) == ArrayRunning /\ arrays[a].life = "live"

ConstructDefault(a, ok) ==
    /\ Unbuilt(a)
    /\ ArrayReturn("DynArray", a, DynArray_default(World, a, ok), TRUE, <<>>)

ConstructCapacity(a, initial_capacity, ok) ==
    /\ Unbuilt(a)
    /\ ArrayReturn("DynArray", a,
                   DynArray_capacity(World, a, initial_capacity, ok), TRUE, <<>>)

ConstructList(a, elements, ok) ==
    /\ Unbuilt(a)
    /\ ArrayReturn("DynArray", a, DynArray_list(World, a, elements, ok), TRUE, <<>>)

ConstructAlloc(a, allocator_arg, take_ownership, ok) ==
    /\ Unbuilt(a)
    /\ allocator_arg => ~deleted
    /\ ArrayReturn("DynArray", a,
                   DynArray_alloc(World, a, allocator_arg, take_ownership, ok), TRUE, <<>>)

ConstructCapacityAlloc(a, initial_capacity, allocator_arg, take_ownership, ok) ==
    /\ Unbuilt(a)
    /\ allocator_arg => ~deleted
    /\ ArrayReturn("DynArray", a,
                   DynArray_capacity_alloc(World, a, initial_capacity, allocator_arg,
                                           take_ownership, ok), TRUE, <<>>)

ConstructCopy(a, other, ok) ==
    /\ Unbuilt(a)
    /\ arrays[other].life = "live"
    /\ ArrayReturn("copy", a, DynArray_copy(World, a, other, ok), TRUE, <<>>)

ConstructMove(a, other) ==
    /\ Unbuilt(a)
    /\ arrays[other].life = "live"
    /\ ArrayReturn("move", a, DynArray_move(World, a, other), FALSE, <<>>)

Destroy(a) ==
    /\ Built(a)
    /\ ArrayReturn("~DynArray", a, DynArray_destroy(World, a), FALSE, <<>>)

CopyAssign(a, other, ok) ==
    /\ Built(a)
    /\ arrays[other].life = "live"
    /\ ArrayReturn("copy_assign", a, copy_assign(World, a, other, ok), TRUE, <<>>)

MoveAssign(a, other) ==
    /\ Built(a)
    /\ arrays[other].life = "live"
    /\ ArrayReturn("move_assign", a, move_assign(World, a, other), FALSE, <<>>)

Reserve(a, new_capacity, ok) ==
    /\ Built(a)
    /\ ArrayReturn("reserve", a, reserve(World, a, new_capacity, ok), FALSE, <<>>)

ArrayResize(a, count, value, ok) ==
    /\ Built(a)
    /\ ArrayReturn("resize", a, DynArray_resize(World, a, count, value, ok), FALSE, <<count>>)

ShrinkToFit(a, ok) ==
    /\ Built(a)
    /\ ArrayReturn("shrink_to_fit", a, shrink_to_fit(World, a, ok), FALSE, <<>>)

Clear(a) ==
    /\ Built(a)
    /\ ArrayReturn("clear", a, clear(World, a), FALSE, <<>>)

PushBack(a, value, ok) ==
    /\ Built(a)
    /\ ArrayReturn("push_back", a, push_back(World, a, value, ok), FALSE, <<>>)

PushBackMove(a, value, ok) ==
    /\ Built(a)
    /\ ArrayReturn("push_back", a, push_back_move(World, a, value, ok), FALSE, <<>>)

PopBack(a) ==
    /\ Built(a)
    /\ ArrayReturn("pop_back", a, pop_back(World, a), FALSE, <<>>)

Insert(a, position, value, ok) ==
    /\ Built(a)
    /\ ArrayReturn("insert", a, insert(World, a, position, value, ok), FALSE, <<position>>)

\* a.push_back(a[index]); arg keeps the index and the value a[index] had
PushBackRef(a, index, ok, found) ==
    /\ Built(a) /\ index < arrays[a].size
    /\ ArrayReturn("push_back", a, push_back_ref(World, a, index, ok, found), FALSE,
                   <<index, value_at(Storage(arrays[a]), index)>>)

\* a.insert(position, a[index]); arg keeps the position, the index and the
\* value a[index] had
InsertRef(a, position, index, ok, found) ==
    /\ Built(a) /\ index < arrays[a].size
    /\ ArrayReturn("insert", a, insert_ref(World, a, position, index, ok, found), FALSE,
                   <<position, index, value_at(Storage(arrays[a]), index)>>)

Erase(a, position) ==
    /\ Built(a)
    /\ ArrayReturn("erase", a, erase(World, a, position), FALSE, <<position>>)

EraseRange(a, first, last) ==
    /\ Built(a)
    /\ ArrayReturn("erase_range", a, erase_range(World, a, first, last), FALSE, <<first, last>>)

Subscript(a, index) ==
    /\ Built(a)
    /\ ArrayReturn("operator[]", a, subscript(World, a, index), FALSE, <<index>>)

At(a, index) ==
    /\ Built(a)
    /\ ArrayReturn("at", a, at(World, a, index), FALSE, <<index>>)

Front(a) ==
    /\ Built(a)
    /\ ArrayReturn("front", a, front(World, a), FALSE, <<>>)

Back(a) ==
    /\ Built(a)
    /\ ArrayReturn("back", a, back(World, a), FALSE, <<>>)

\* one array, on the heap or in the arena over the 16-byte buffer
InitArray == InitArena(Bufs, BufLens, {0})

NextArray ==
    \/ \E ok \in BOOLEAN : ConstructDefault(1, ok)
    \/ \E c \in InitialCapacities, ok \in BOOLEAN : ConstructCapacity(1, c, ok)
    \/ \E l \in Lists, ok \in BOOLEAN : ConstructList(1, l, ok)
    \/ \E al \in BOOLEAN, own \in BOOLEAN, ok \in BOOLEAN : ConstructAlloc(1, al, own, ok)
    \/ \E c \in InitialCapacities, al \in BOOLEAN, own \in BOOLEAN, ok \in BOOLEAN :
           ConstructCapacityAlloc(1, c, al, own, ok)
    \/ Destroy(1)
    \/ \E n \in ReserveCaps, ok \in BOOLEAN : Reserve(1, n, ok)
    \/ \E n \in 0 .. MaxSize, v \in Vals, ok \in BOOLEAN : ArrayResize(1, n, v, ok)
    \/ \E ok \in BOOLEAN : ShrinkToFit(1, ok)
    \/ Clear(1)
    \/ \E v \in Vals, ok \in BOOLEAN : arrays[1].size < MaxSize /\ PushBack(1, v, ok)
    \/ \E v \in Vals, ok \in BOOLEAN : arrays[1].size < MaxSize /\ PushBackMove(1, v, ok)
    \/ PopBack(1)
    \/ \E p \in 0 .. (arrays[1].size + 1), v \in Vals, ok \in BOOLEAN :
           arrays[1].size < MaxSize /\ Insert(1, p, v, ok)
    \/ \E p \in 0 .. arrays[1].size : Erase(1, p)
    \/ \E f \in 0 .. (arrays[1].size + 1), l \in 0 .. (arrays[1].size + 1) :
           EraseRange(1, f, l)
    \/ \E i \in {0, arrays[1].size} : Subscript(1, i)
    \/ \E i \in {0, arrays[1].size} : At(1, i)
    \/ Front(1)
    \/ Back(1)

SpecArray == InitArray /\ [][NextArray]_vars

\* two arrays, copied and moved into each other: array 1 goes through every
\* method, array 2 is built and destroyed
InitCopy == InitArena({16}, BufLens, {0})

NextCopy ==
    \/ \E c \in {0, 1}, ok \in BOOLEAN : ConstructCapacity(1, c, ok)
    \/ \E a \in ArrayIds, ok \in BOOLEAN : ConstructList(a, <<1, 2>>, ok)
    \/ \E ok \in BOOLEAN : ConstructCapacityAlloc(1, 1, TRUE, TRUE, ok)
    \/ \E a \in ArrayIds, b \in ArrayIds, ok \in BOOLEAN : ConstructCopy(a, b, ok)
    \/ \E a \in ArrayIds, b \in ArrayIds : ConstructMove(a, b)
    \/ \E a \in ArrayIds : Destroy(a)
    \/ \E a \in ArrayIds, b \in ArrayIds, ok \in BOOLEAN : CopyAssign(a, b, ok)
    \/ \E a \in ArrayIds, b \in ArrayIds : MoveAssign(a, b)
    \/ \E ok \in BOOLEAN : Reserve(1, 2, ok)
    \/ \E n \in {0, MaxPairSize}, ok \in BOOLEAN : ArrayResize(1, n, 1, ok)
    \/ \E ok \in BOOLEAN : ShrinkToFit(1, ok)
    \/ Clear(1)
    \/ \E ok \in BOOLEAN : arrays[1].size < MaxPairSize /\ PushBack(1, 1, ok)
    \/ \E ok \in BOOLEAN : arrays[1].size < MaxPairSize /\ PushBackMove(1, 2, ok)
    \/ PopBack(1)
    \/ \E ok \in BOOLEAN : arrays[1].size < MaxPairSize /\ Insert(1, 0, 2, ok)
    \/ Erase(1, 0)
    \/ \E l \in {1, 2} : EraseRange(1, 0, l)

SpecCopy == InitCopy /\ [][NextCopy]_vars


\* one array whose elements are passed back to it by reference
RefCaps == {MaxSize}
InitRef == InitArena({16}, BufLens, {0})

NextRef ==
    \/ \E l \in Lists, ok \in BOOLEAN : ConstructList(1, l, ok)
    \/ \E c \in InitialCapacities, ok \in BOOLEAN :
           ConstructCapacityAlloc(1, c, TRUE, FALSE, ok)
    \/ \E n \in RefCaps, ok \in BOOLEAN : Reserve(1, n, ok)
    \/ \E v \in Vals, ok \in BOOLEAN : arrays[1].size < MaxSize /\ PushBack(1, v, ok)
    \/ PopBack(1)
    \/ \E i \in 0 .. MaxSize, ok \in BOOLEAN, found \in Vals :
           arrays[1].size < MaxSize /\ PushBackRef(1, i, ok, found)
    \/ \E p \in 0 .. MaxSize, i \in 0 .. MaxSize, ok \in BOOLEAN, found \in Vals :
           arrays[1].size < MaxSize /\ InsertRef(1, p, i, ok, found)

SpecRef == InitRef /\ [][NextRef]_vars

\* one array in the arena, asked for capacities up to those whose size in
\* bytes reaches the end of the word
ArenaCaps == {2, 3, Word \div SizeofT - 1, Word \div SizeofT + 1}

NextArenaArray ==
    \/ \E c \in InitialCapacities, own \in BOOLEAN :
           ConstructCapacityAlloc(1, c, TRUE, own, TRUE)
    \/ Destroy(1)
    \/ \E n \in ArenaCaps : Reserve(1, n, TRUE)
    \/ \E n \in 0 .. MaxSize, v \in Vals : ArrayResize(1, n, v, TRUE)
    \/ ShrinkToFit(1, TRUE)
    \/ Clear(1)
    \/ \E v \in Vals : arrays[1].size < MaxSize /\ PushBack(1, v, TRUE)
    \/ PopBack(1)
    \/ \E p \in 0 .. arrays[1].size, v \in Vals :
           arrays[1].size < MaxSize /\ Insert(1, p, v, TRUE)
    \/ \E p \in 0 .. arrays[1].size : Erase(1, p)

SpecArenaArray == InitArray /\ [][NextArenaArray]_vars

\* grow() followed through the capacities of one array that is appended to
\* without end: capacities below 2 ^ MaxGrowBits
MaxGrowBits == 27
\* the capacities the array starts with
GrowCaps == {0, 1, 2, 3, 4, 6, 10, 5592409}

\* push_back on an array with size = capacity: grow(size + 1), and the
\* reserve it ends with succeeds; count is the number of these since the
\* array was built
GrowFull(capacity) ==
    /\ capacity < 2 ^ MaxGrowBits
    /\ growth' = [called |-> TRUE, capacity |-> capacity, min_capacity |-> capacity + 1,
                  new_capacity |-> grow_capacity(capacity, capacity + 1),
                  count |-> growth.count + 1]
    /\ UNCHANGED <<arena, mem, ret, ub, temps, tghost, ended, arrays, heap, deleted,
                   aborted, blocks>>

\* the first growth of an array built with a capacity and filled
GrowFirst(capacity) == ~growth.called /\ GrowFull(capacity)
\* the next growth, when the array is full again
GrowAgain == growth.called /\ GrowFull(growth.new_capacity)

InitGrow == InitArena({16}, BufLens, {0})

NextGrow ==
    \/ \E c \in GrowCaps : GrowFirst(c)
    \/ GrowAgain

SpecGrow == InitGrow /\ [][NextGrow]_vars

\* ------------------------------------------------------------ the claims
\* stated apart from the code: powers of two, and rounding up to a multiple
IsPow2(x) == \E k \in 0 .. (WordBits - 1) : x = 2 ^ k
AlignUp(x, align) == CHOOSE y \in x .. (x + align - 1) : y % align = 0
Min(x, y) == IF x < y THEN x ELSE y

\* C1: in every state reached by create, alloc_align/alloc, resize_align/
\* resize, free, free_all and TempArenaMemory begin/end, failed calls
\* included, 0 <= prev_offset <= curr_offset <= buf_len.
C1_OffsetsOrdered ==
    Running =>
        /\ 0 <= arena.prev_offset
        /\ arena.prev_offset <= arena.curr_offset
        /\ arena.curr_offset <= arena.buf_len

\* C3: alloc_align(size, align) with a power-of-two align takes offset = the
\* position of the current offset aligned forward to align; if offset + size
\* <= buf_len it returns buf + offset, sets prev_offset = offset and
\* curr_offset = offset + size and zero-fills exactly [offset, offset+size);
\* otherwise it returns OutOfMemory.
C3_AllocAlignContract ==
    Running =>
        \A size \in Sizes(arena), align \in Aligns :
            IsPow2(align) =>
                LET offset == AlignUp(arena.buf + arena.curr_offset, align) - arena.buf
                    r == alloc_align(arena, mem, size, align)
                IN  IF offset + size <= arena.buf_len
                    THEN /\ r.err = Ok
                         /\ r.ptr = arena.buf + offset
                         /\ r.a = [arena EXCEPT !.prev_offset = offset,
                                                !.curr_offset = offset + size]
                         /\ \A i \in DOMAIN mem :
                                r.m[i] = IF offset <= i /\ i < offset + size
                                         THEN 0 ELSE mem[i]
                         /\ ~r.oob
                    ELSE r.err = "OutOfMemory"

\* what C3 says of the requests whose sum offset + size fits the word
AllocAlignWithoutWrap ==
    Running /\ C1_OffsetsOrdered =>
        \A size \in Sizes(arena), align \in Aligns :
            LET offset == AlignUp(arena.buf + arena.curr_offset, align) - arena.buf
                r == alloc_align(arena, mem, size, align)
            IN  IsPow2(align) /\ offset + size < Word =>
                    IF offset + size <= arena.buf_len
                    THEN /\ r.err = Ok
                         /\ r.ptr = arena.buf + offset
                         /\ r.a = [arena EXCEPT !.prev_offset = offset,
                                                !.curr_offset = offset + size]
                         /\ \A i \in DOMAIN mem :
                                r.m[i] = IF offset <= i /\ i < offset + size
                                         THEN 0 ELSE mem[i]
                         /\ ~r.oob
                    ELSE r.err = "OutOfMemory" /\ r.a = arena /\ r.m = mem

\* the alignments resize_align is asked for, through resize() too
AllResizeAligns == ResizeAligns \cup {DEFAULT_ALIGNMENT}

\* the in-place resize that C6 describes, of the block at old_memory
InPlaceResized(old_memory, old_size, new_size, align) ==
    LET r == resize_align(arena, mem, old_memory, old_size, new_size, align)
        prev == arena.prev_offset
    IN  /\ r.err = Ok
        /\ r.ptr = old_memory
        /\ r.a = [arena EXCEPT !.curr_offset = prev + new_size]
        /\ \A i \in DOMAIN mem :
               prev <= i /\ i < prev + Min(old_size, new_size) => r.m[i] = mem[i]
        /\ \A i \in DOMAIN mem :
               prev + old_size <= i /\ i < prev + new_size => r.m[i] = 0
        /\ ~r.oob

\* C6 as the specification states it: if old_ptr == buf + prev_offset,
\* old_size > 0 and prev_offset + new_size <= buf_len, resize_align returns
\* old_ptr, sets curr_offset = prev_offset + new_size, leaves prev_offset and
\* the first min(old_size, new_size) bytes alone and zero-fills
\* [old_size, new_size) when growing.
C6_InPlaceResizeAsStated ==
    Running =>
        \A p \in Ptrs(arena), os \in OldSizes, ns \in Sizes(arena), al \in AllResizeAligns :
            /\ p = arena.buf + arena.prev_offset
            /\ os > 0
            /\ arena.prev_offset + ns <= arena.buf_len
            => InPlaceResized(p, os, ns, al)

\* C6, amended: the same, for a power-of-two align and an old_ptr that lies
\* inside the buffer (prev_offset < buf_len).
C6_InPlaceResize ==
    Running =>
        \A p \in Ptrs(arena), os \in OldSizes, ns \in Sizes(arena), al \in AllResizeAligns :
            /\ IsPow2(al)
            /\ p = arena.buf + arena.prev_offset
            /\ arena.prev_offset < arena.buf_len
            /\ os > 0
            /\ arena.prev_offset + ns <= arena.buf_len
            => InPlaceResized(p, os, ns, al)

\* C6's case: the first block of a short buffer, written by its owner, has
\* been grown in place to the end of the buffer
C6_Witness ==
    /\ ret.op = "resize_align" /\ ret.err = Ok
    /\ ret.ptr = arena.buf
    /\ arena.buf_len = MaxBytes
    /\ arena.prev_offset = 0 /\ arena.curr_offset = MaxBytes
    /\ mem[0] = 1 /\ mem[MaxBytes - 1] = 0

\* C7: a scope is begun, allocations and resizes are made, the scope is
\* ended: prev_offset and curr_offset are what they were at begin, and the
\* allocation request that was the first call inside the scope, made again
\* now, returns what it returned then.
C7_ScopeIsolation ==
    ret.op = "end" /\ ended.clean =>
        /\ arena.prev_offset = ended.prev_offset
        /\ arena.curr_offset = ended.curr_offset
        /\ ended.first.op = "alloc_align" =>
               LET r == alloc_align(arena, mem, ended.first.size, ended.first.align)
               IN  r.err = ended.first.err /\ r.ptr = ended.first.ptr

\* C7's case: a scope begun in a used arena has ended after a successful
\* allocation and further requests inside it
C7_Witness ==
    /\ ret.op = "end" /\ ended.clean
    /\ ended.curr_offset > 0
    /\ ended.first.op = "alloc_align" /\ ended.first.err = Ok
    /\ temps[1].curr_offset = arena.curr_offset

\* the first allocation of the whole buffer after a reset, at alignment align
WholeBuffer(align) == alloc_align(arena, mem, arena.buf_len, align)

\* C8 as the specification states it: after free_all(), prev_offset =
\* curr_offset = 0 and the next allocation of buf_len bytes, through alloc or
\* through alloc_align at any power-of-two alignment, succeeds and returns the
\* base address of the buffer.
C8_BulkResetAsStated ==
    ret.op = "free_all" =>
        /\ arena.prev_offset = 0 /\ arena.curr_offset = 0
        /\ alloc(arena, mem, arena.buf_len).err = Ok
        /\ alloc(arena, mem, arena.buf_len).ptr = arena.buf
        /\ \A align \in Aligns :
               IsPow2(align) =>
                   WholeBuffer(align).err = Ok /\ WholeBuffer(align).ptr = arena.buf

\* C8, amended: after free_all(), prev_offset = curr_offset = 0 and the next
\* allocation of buf_len bytes at a power-of-two alignment succeeds and
\* returns the base address when the base address is a multiple of that
\* alignment, and fails with OutOfMemory when it is not.
C8_BulkReset ==
    ret.op = "free_all" =>
        /\ arena.prev_offset = 0 /\ arena.curr_offset = 0
        /\ alloc(arena, mem, arena.buf_len) = WholeBuffer(DEFAULT_ALIGNMENT)
        /\ \A align \in Aligns \cup {DEFAULT_ALIGNMENT} :
               IsPow2(align) =>
                   IF arena.buf % align = 0
                   THEN WholeBuffer(align).err = Ok /\ WholeBuffer(align).ptr = arena.buf
                   ELSE WholeBuffer(align).err = "OutOfMemory"

\* C8's case: free_all() after allocations that a scope had recorded
C8_Witness ==
    /\ ret.op = "free_all"
    /\ temps[1].arena /\ temps[1].curr_offset > 0
    /\ arena.buf % DEFAULT_ALIGNMENT = 0

\* ---------------------------------------------------- claims on DynArray
Max(x, y) == IF x > y THEN x ELSE y

\* C2: in every reachable state of a DynArray, after constructions,
\* push_back, pop_back, insert, erase, erase_range, reserve, resize,
\* shrink_to_fit, clear, copies and moves, failed calls included,
\* size <= capacity.
C2_SizeWithinCapacity ==
    \A a \in ArrayIds : arrays[a].size <= arrays[a].capacity

\* C2's case: a full array whose push_back has just failed, beside a second
\* array that holds elements
C2_Witness ==
    /\ ret.op = "push_back" /\ ret.err = "OutOfMemory"
    /\ arrays[1].size = arrays[1].capacity /\ arrays[1].size > 0
    /\ arrays[2].life = "live" /\ arrays[2].size > 0

\* the capacities reserve is asked for in the claims
AnyCaps == ReserveCaps \cup (0 .. MaxSize)

\* what C4 says of reserve(n) on array t of the present world, r being what
\* the call returns and got what the allocation it makes answers
ReserveContract(t, n, r, got) ==
    IF n <= t.capacity THEN r.err = Ok /\ r.w = World
    ELSE IF ~got.failed
    THEN /\ r.err = Ok
         /\ r.w.arrays[1].capacity = n
         /\ r.w.arrays[1].size = t.size
         /\ Elements(r.w.arrays[1]) = Elements(t)
    ELSE /\ r.err = "OutOfMemory"
         /\ r.w.arrays[1] = t
         /\ r.w.arena = arena

PushBackContract(t, value, r, got) ==
    /\ r.err = Ok =>
           /\ Elements(r.w.arrays[1]) = Append(Elements(t), value)
           /\ r.w.arrays[1].size = t.size + 1
    /\ t.size = t.capacity /\ got.failed =>
           r.err = "OutOfMemory" /\ r.w.arrays[1] = t
    /\ t.size < t.capacity \/ ~got.failed => r.err = Ok

\* the allocation push_back makes on the present array 1 when it is full
GrowthAllocation(ok) ==
    allocate(World, 1,
             Wrap(SizeofT * grow_capacity(arrays[1].capacity, Wrap(arrays[1].size + 1))), ok)

\* C5: push_back(value), copying or moving: on success the new sequence is
\* the old one followed by value and size is one more; when size == capacity
\* and the allocation fails it returns OutOfMemory and size, capacity, data
\* and every element are unchanged.
C5_PushBack ==
    ArrayRunning /\ arrays[1].life = "live" =>
        \A value \in Vals, ok \in BOOLEAN :
            /\ PushBackContract(arrays[1], value, push_back(World, 1, value, ok),
                                GrowthAllocation(ok))
            /\ PushBackContract(arrays[1], value, push_back_move(World, 1, value, ok),
                                GrowthAllocation(ok))

\* C5's case: push_back on a full array in an arena that has no room for
\* the grown block has failed
C5_Witness ==
    /\ ret.op = "push_back" /\ ret.err = "OutOfMemory"
    /\ arrays[1].allocator
    /\ arrays[1].size = arrays[1].capacity /\ arrays[1].size >= 2

\* C9: a push_back or insert on an array with size == capacity changes
\* capacity to max(size + 1, capacity == 0 ? 8 : floor(capacity * 1.5) + 1).
C9_GrowthPolicy ==
    growth.called =>
        growth.new_capacity =
            Max(growth.min_capacity,
                IF growth.capacity = 0 THEN 8 ELSE (3 * growth.capacity) \div 2 + 1)

\* the growth policy as C9 states it, for the capacities whose product with
\* 1.5 a float holds exactly
GrowthPolicyWhileExact ==
    growth.called /\ 3 * growth.capacity < 2 ^ 24 =>
        growth.new_capacity =
            Max(growth.min_capacity,
                IF growth.capacity = 0 THEN 8 ELSE (3 * growth.capacity) \div 2 + 1)

\* what C10 says of push_back(x) then pop_back() on array t: pushed is what
\* the push_back returns
RoundTrip(t, pushed, popped) ==
    pushed.err = Ok =>
        /\ popped.err = Ok
        /\ popped.w.arrays[1].size = t.size
        /\ Elements(popped.w.arrays[1]) = Elements(t)

\* pop_back() after the call that returned r
then_pop_back(r) == pop_back(r.w, 1)

\* C10: from any reachable array state, a successful push_back(x) followed by
\* pop_back() restores the size and leaves the elements 0..size-1 with their
\* values, also when the push_back moved the storage.
C10_RoundTrip ==
    ArrayRunning /\ arrays[1].life = "live" =>
        \A x \in Vals, ok \in BOOLEAN :
            RoundTrip(arrays[1], push_back(World, 1, x, ok),
                      then_pop_back(push_back(World, 1, x, ok)))

\* C10's case: pop_back has undone a push_back that moved the elements
C10_Witness ==
    /\ ret.op = "pop_back" /\ ret.err = Ok /\ ret.after = "moved"
    /\ arrays[1].size >= 2

\* the sequence s with value put before its element of index position
WithInserted(s, position, value) ==
    [i \in 1 .. (Len(s) + 1) |->
        IF i <= position THEN s[i] ELSE IF i = position + 1 THEN value ELSE s[i - 1]]

\* what C11 says of insert(position, value) on array t, r being what the call
\* returns and got what the allocation answers that the growth makes when
\* size == capacity
InsertContract(t, position, value, r, got) ==
    IF position > t.size THEN r.err = "OutOfRange" /\ r.w = World
    ELSE t.size < t.capacity \/ ~got.failed =>
             /\ r.err = Ok
             /\ r.w.arrays[1].size = t.size + 1
             /\ Elements(r.w.arrays[1]) = WithInserted(Elements(t), position, value)

\* C11: insert(position, value) returns OutOfRange and leaves the array
\* unchanged when position > size; otherwise, the growth succeeding, the new
\* sequence is old[0..position), value, old[position..size) and size is one
\* more.
C11_Insert ==
    ArrayRunning /\ arrays[1].life = "live" =>
        \A position \in 0 .. (MaxSize + 1), value \in Vals, ok \in BOOLEAN :
            InsertContract(arrays[1], position, value,
                           insert(World, 1, position, value, ok), GrowthAllocation(ok))

\* C11's case: an insert before the last of three or more elements, into a
\* full array, has moved them to a larger block and shifted the tail
C11_Witness ==
    /\ ret.op = "insert" /\ ret.err = Ok /\ ret.moved /\ ret.arg = <<1>>
    /\ arrays[1].size >= 4
    /\ Elements(arrays[1])[2] # Elements(arrays[1])[3]

\* the sequence s without its elements of index first .. last - 1
WithoutRange(s, first, last) ==
    [i \in 1 .. (Len(s) - (last - first)) |->
        IF i <= first THEN s[i] ELSE s[i + (last - first)]]

\* what C12 says of erase_range(first, last) on array t, r being what the
\* call returns
EraseRangeContract(t, first, last, r) ==
    IF first >= t.size \/ last > t.size \/ first > last
    THEN r.err = "OutOfRange" /\ r.w = World
    ELSE /\ r.err = Ok
         /\ r.w.arrays[1].size = t.size - (last - first)
         /\ r.w.arrays[1].capacity = t.capacity
         /\ Elements(r.w.arrays[1]) = WithoutRange(Elements(t), first, last)

\* the positions and range ends a caller passes, SIZE_MAX included
Positions == (0 .. (MaxSize + 1)) \cup {Word - 1}

\* C12: erase_range(first, last) returns OutOfRange and leaves the array
\* unchanged when first >= size, last > size or first > last; otherwise the
\* new sequence is old[0..first), old[last..size), size is last - first less
\* and capacity is unchanged. erase(position) does what
\* erase_range(position, position + 1) does.
C12_EraseRange ==
    ArrayRunning /\ arrays[1].life = "live" =>
        /\ \A first \in Positions, last \in Positions :
               EraseRangeContract(arrays[1], first, last, erase_range(World, 1, first, last))
        /\ \A position \in 0 .. (MaxSize + 1) :
               /\ EraseRangeContract(arrays[1], position, position + 1,
                                     erase(World, 1, position))
               /\ erase(World, 1, position) = erase_range(World, 1, position, position + 1)

\* C12's case: erase_range has taken two elements out of the middle of four
\* and moved the last one down
C12_Witness ==
    /\ ret.op = "erase_range" /\ ret.err = Ok /\ ret.arg = <<1, 3>>
    /\ arrays[1].size = 2
    /\ Elements(arrays[1])[1] # Elements(arrays[1])[2]

\* what C13 says of at(index) on array t, r being what the call returns
AtContract(t, index, r) ==
    /\ r.w = World
    /\ r.err \in {Ok, "OutOfRange"}
    /\ r.err = "OutOfRange" <=> index >= t.size
    /\ r.err = Ok => r.ref = index /\ value_at(Storage(t), r.ref) = Elements(t)[index + 1]

\* what C13 says of front() (last = FALSE) and back() (last = TRUE)
EndContract(t, last, r) ==
    /\ r.w = World
    /\ r.err \in {Ok, "EmptyArray"}
    /\ r.err = "EmptyArray" <=> t.size = 0
    /\ r.err = Ok => r.ref = (IF last THEN t.size - 1 ELSE 0)

\* what C13 says of operator[](index)
SubscriptContract(t, index, r) ==
    /\ r.w = World
    /\ r.err = "out_of_range" <=> index >= t.size
    /\ r.err # "out_of_range" => r.err = Ok /\ r.ref = index

\* C13: at(i) returns OutOfRange exactly when i >= size and otherwise a
\* reference to element i; front() and back() return EmptyArray exactly when
\* size == 0 and otherwise element 0 and element size - 1; none of the three
\* raises or changes the array. operator[](i) raises out_of_range exactly when
\* i >= size.
C13_BoundsChecked ==
    ArrayRunning /\ arrays[1].life = "live" =>
        /\ \A index \in Positions :
               /\ AtContract(arrays[1], index, at(World, 1, index))
               /\ SubscriptContract(arrays[1], index, subscript(World, 1, index))
        /\ EndContract(arrays[1], FALSE, front(World, 1))
        /\ EndContract(arrays[1], TRUE, back(World, 1))

\* C13's case: at(size) has just been refused on an array that holds
\* elements
C13_Witness ==
    /\ ret.op = "at" /\ ret.err = "OutOfRange"
    /\ arrays[1].size >= 2 /\ ret.arg = <<arrays[1].size>>

\* what C14 says of a copy of array s that made array a of the world r.w
CopyContract(s, a, other, r) ==
    r.err = Ok =>
        /\ Elements(r.w.arrays[a]) = Elements(s)
        /\ r.w.arrays[a].size = s.size
        /\ r.w.arrays[a].capacity = s.capacity
        /\ r.w.arrays[other] = s

\* C14: copy construction and copy assignment yield a destination whose
\* elements, in order, size and capacity are the source's, whatever capacity
\* the destination of a copy assignment had; the source is unchanged.
C14_CopySemantics ==
    ArrayRunning =>
        \A a \in ArrayIds : \A other \in ArrayIds \ {a}, ok \in BOOLEAN :
            arrays[other].life = "live" =>
                /\ arrays[a].life = "none" =>
                       CopyContract(arrays[other], a, other, DynArray_copy(World, a, other, ok))
                /\ arrays[a].life = "live" =>
                       CopyContract(arrays[other], a, other, copy_assign(World, a, other, ok))

\* the part of C14 the code keeps: the elements, the size and the source, and
\* for the capacity the larger of the two
CopyKeepsElements ==
    ArrayRunning =>
        \A a \in ArrayIds : \A other \in ArrayIds \ {a}, ok \in BOOLEAN :
            arrays[other].life = "live" /\ arrays[a].life = "live"
            /\ copy_assign(World, a, other, ok).err = Ok =>
                /\ Elements(copy_assign(World, a, other, ok).w.arrays[a]) = Elements(arrays[other])
                /\ copy_assign(World, a, other, ok).w.arrays[other] = arrays[other]
                /\ copy_assign(World, a, other, ok).w.arrays[a].capacity
                       = Max(arrays[a].capacity, arrays[other].capacity)

\* what C15 says of a move of array s (array other) into array a: r is what
\* the move returns
MoveContract(s, a, other, r) ==
    /\ r.err = Ok
    /\ r.w.arrays[a].data = s.data
    /\ Elements(r.w.arrays[a]) = Elements(s)
    /\ r.w.arrays[a].size = s.size
    /\ r.w.arrays[a].capacity = s.capacity
    /\ r.w.arrays[a].allocator = s.allocator
    /\ r.w.arrays[a].owns_allocator = s.owns_allocator
    /\ r.w.arrays[other].data = NULL
    /\ r.w.arrays[other].size = 0
    /\ r.w.arrays[other].capacity = 0
    /\ ~r.w.arrays[other].allocator
    /\ ~r.w.arrays[other].owns_allocator

\* what C15 says of the destination t of a move assignment: its block has
\* gone back to the heap, its owned arena is deleted
ReleaseContract(t, r) ==
    /\ ~t.allocator => t.data \notin r.w.heap
    /\ t.allocator /\ t.owns_allocator => r.w.deleted
    /\ r.w.heap = heap \ {IF t.allocator THEN NULL ELSE t.data}

\* C15: after move construction or move assignment from a distinct source
\* the destination holds the source's former storage pointer, elements, size,
\* capacity, allocator and ownership flag, and the source has no storage,
\* size = capacity = 0, no allocator and no ownership; move assignment has
\* released the destination's former storage and its owned arena.
C15_MoveSemantics ==
    ArrayRunning =>
        \A a \in ArrayIds : \A other \in ArrayIds \ {a} :
            arrays[other].life = "live" =>
                /\ arrays[a].life = "none" =>
                       MoveContract(arrays[other], a, other, DynArray_move(World, a, other))
                /\ arrays[a].life = "live" =>
                       /\ MoveContract(arrays[other], a, other, move_assign(World, a, other))
                       /\ ReleaseContract(arrays[a], move_assign(World, a, other))

\* C15's case: a move assignment has given an array the two elements of the
\* other, whose members are reset, and only the block it took is on the heap
C15_Witness ==
    /\ ret.op = "move_assign" /\ ret.err = Ok /\ ret.moved
    /\ arrays[ret.self].size = 2 /\ ~arrays[ret.self].allocator
    /\ heap = {arrays[ret.self].data}
    /\ \E other \in ArrayIds \ {ret.self} :
           arrays[other].life = "live" /\ arrays[other].data = NULL

\* the addresses of the arena's buffer
ArenaMemory == arena.buf .. (arena.buf + arena.buf_len - 1)

\* the blocks the live arrays without an arena hold
HeldHeapBlocks ==
    {arrays[a].data : a \in {b \in ArrayIds : arrays[b].life = "live" /\ ~arrays[b].allocator
                                              /\ arrays[b].data # NULL}}

\* C16: the storage block of an array is arena memory if and only if an arena
\* is attached, or it is null; an array with an arena gets every block from
\* it and hands none to free; an array without one gets every block from the
\* heap, and every heap block is freed exactly once: none is allocated that
\* no array holds, none is held by two arrays, none is freed twice.
C16_StorageProvenance ==
    /\ \A a \in ArrayIds :
           arrays[a].data # NULL =>
               /\ arrays[a].life = "live"
               /\ arrays[a].allocator <=> arrays[a].data \in ArenaMemory
               /\ ~arrays[a].allocator <=> arrays[a].data \in heap
    /\ heap = HeldHeapBlocks
    /\ \A a \in ArrayIds : \A b \in ArrayIds \ {a} :
           arrays[a].data # NULL /\ ~arrays[a].allocator => arrays[a].data # arrays[b].data
    /\ "bad" \in DOMAIN ret => ret.bad # "free"

\* C16's case: an array has just got a larger block from its arena while the
\* other array holds a heap block with elements
C16_Witness ==
    /\ ret.op = "reserve" /\ ret.err = Ok /\ ret.moved
    /\ arrays[1].allocator /\ arrays[1].data \in ArenaMemory /\ arrays[1].size >= 1
    /\ arrays[2].life = "live" /\ arrays[2].data \in heap /\ arrays[2].size >= 1

\* what C17 says of resize_align(old_memory, old_size, new_size, align) in
\* the present arena: r is what the call returns, fresh what
\* alloc_align(new_size, align) returns
CopyingResized(old_memory, old_size, new_size, r, fresh) ==
    /\ r.err = fresh.err /\ r.ptr = fresh.ptr /\ r.a = fresh.a
    /\ r.err = Ok =>
           /\ \A k \in 0 .. (Min(old_size, new_size) - 1) :
                  (r.a.prev_offset + k) \in DOMAIN mem /\ (old_memory - arena.buf + k) \in DOMAIN mem
                      => r.m[r.a.prev_offset + k] = mem[old_memory - arena.buf + k]
           /\ \A k \in 0 .. (old_size - 1) :
                  (old_memory - arena.buf + k) \in DOMAIN mem
                      => r.m[old_memory - arena.buf + k] = mem[old_memory - arena.buf + k]
           /\ r.a.curr_offset >= arena.curr_offset
           /\ ~r.oob
    /\ r.err # Ok => r.a = arena /\ r.m = mem

\* the case of C17: old_ptr inside the buffer, not the last block, old_size > 0
CopyingCase(old_memory, old_size) ==
    /\ arena.buf <= old_memory /\ old_memory < arena.buf + arena.buf_len
    /\ old_memory # arena.buf + arena.prev_offset
    /\ old_size > 0

\* C17: when old_ptr lies inside [buf, buf+buf_len), is not buf + prev_offset,
\* and old_size > 0, resize_align allocates a fresh block as
\* alloc_align(new_size, align) would, the fresh block's first
\* min(old_size, new_size) bytes are the old block's, the old block's bytes
\* are untouched and not reclaimed (curr_offset only grows), and if the
\* allocation fails the error is returned with the arena unchanged.
C17_CopyingResize ==
    Running =>
        \A p \in Ptrs(arena), os \in OldSizes, ns \in Sizes(arena), al \in AllResizeAligns :
            CopyingCase(p, os) =>
                CopyingResized(p, os, ns, resize_align(arena, mem, p, os, ns, al),
                               alloc_align(arena, mem, ns, al))

\* C17 for an old block that lies in the allocated part of the buffer and a
\* new_size that the word can add to the aligned offset
CopyingResizeWithoutWrap ==
    Running /\ C1_OffsetsOrdered =>
        \A p \in Ptrs(arena), os \in OldSizes, ns \in Sizes(arena), al \in AllResizeAligns :
            /\ CopyingCase(p, os)
            /\ p - arena.buf + os <= arena.curr_offset
            /\ IsPow2(al) => AlignUp(arena.buf + arena.curr_offset, al) - arena.buf + ns < Word
            => CopyingResized(p, os, ns, resize_align(arena, mem, p, os, ns, al),
                              alloc_align(arena, mem, ns, al))

\* C18: resize_align with a non-null old_ptr outside [buf, buf+buf_len),
\* old_size > 0 and a power-of-two align returns OutOfBounds and leaves
\* prev_offset, curr_offset and the buffer's bytes unchanged; with old_ptr
\* null or old_size == 0 it does what alloc_align(new_size, align) does,
\* wherever old_ptr points.
C18_ResizeOutOfBounds ==
    Running =>
        \A p \in Ptrs(arena), os \in OldSizes, ns \in Sizes(arena), al \in AllResizeAligns :
            /\ p = NULL \/ os = 0 =>
                   resize_align(arena, mem, p, os, ns, al) = alloc_align(arena, mem, ns, al)
            /\ /\ p # NULL /\ os > 0 /\ IsPow2(al)
               /\ p < arena.buf \/ p >= arena.buf + arena.buf_len
               => /\ resize_align(arena, mem, p, os, ns, al).err = "OutOfBounds"
                  /\ resize_align(arena, mem, p, os, ns, al).a = arena
                  /\ resize_align(arena, mem, p, os, ns, al).m = mem

\* C18's case: a resize_align of a pointer outside the buffer has just been
\* refused by an arena that holds a block its owner has written
C18_Witness ==
    /\ ret.op = "resize_align" /\ ret.err = "OutOfBounds"
    /\ arena.curr_offset > arena.prev_offset
    /\ \E i \in DOMAIN mem : mem[i] = 1

\* what C19 says of resize(count, value) on array t, r being what the call
\* returns and got what the allocation answers that a needed reserve makes
ResizeContract(t, count, value, r, got) ==
    /\ r.err = Ok =>
           /\ r.w.arrays[1].size = count
           /\ \A i \in 1 .. Min(t.size, count) : r.w.arrays[1].cells[i] = t.cells[i]
           /\ \A i \in (t.size + 1) .. count : r.w.arrays[1].cells[i] = value
           /\ r.w.arrays[1].capacity =
                  (IF count > t.capacity THEN count ELSE t.capacity)
    /\ count > t.capacity /\ got.failed => r.err = "OutOfMemory" /\ r.w.arrays[1] = t
    /\ count <= t.capacity \/ ~got.failed => r.err = Ok

\* the counts resize is asked for
Counts == 0 .. (MaxSize + 1)

\* C19: resize(count, value): on success size == count, the elements below
\* min(old size, count) keep their values, every index in [old size, count)
\* holds value, and capacity is raised, to count, only when count > old
\* capacity; if the needed allocation fails it returns OutOfMemory and the
\* array is unchanged.
C19_Resize ==
    ArrayRunning /\ arrays[1].life = "live" =>
        \A count \in Counts, value \in Vals, ok \in BOOLEAN :
            ResizeContract(arrays[1], count, value,
                           DynArray_resize(World, 1, count, value, ok),
                           allocate(World, 1, Wrap(SizeofT * count), ok))

\* C19's case: resize has grown a full array of two or more elements into a
\* larger block and filled the new slots
C19_Witness ==
    /\ ret.op = "resize" /\ ret.err = Ok /\ ret.moved
    /\ ret.arg = <<arrays[1].size>> /\ arrays[1].size >= 3
    /\ Elements(arrays[1])[1] # Elements(arrays[1])[arrays[1].size]

\* what C20 says of shrink_to_fit() on array t, r being what the call
\* returns and got what the allocation of size slots answers
ShrinkContract(t, r, got) ==
    /\ r.err = Ok =>
           /\ r.w.arrays[1].capacity = r.w.arrays[1].size
           /\ r.w.arrays[1].size = t.size
           /\ Elements(r.w.arrays[1]) = Elements(t)
    /\ r.err = Ok /\ t.size = 0 =>
           /\ r.w.arrays[1].data = NULL
           /\ r.w.arrays[1].capacity = 0
           /\ ~t.allocator => t.data \notin r.w.heap
    /\ t.size # t.capacity /\ t.size > 0 /\ got.failed =>
           r.err = "OutOfMemory" /\ r.w.arrays[1] = t
    /\ t.size = t.capacity \/ t.size = 0 \/ ~got.failed => r.err = Ok

\* C20: shrink_to_fit(): on success capacity == size and the live elements
\* are unchanged; when size == 0 the storage is released (no storage,
\* capacity 0); when the reallocation fails it returns OutOfMemory and data,
\* size, capacity and the elements are unchanged.
C20_ShrinkToFit ==
    ArrayRunning /\ arrays[1].life = "live" =>
        \A ok \in BOOLEAN :
            ShrinkContract(arrays[1], shrink_to_fit(World, 1, ok),
                           allocate(World, 1, Wrap(SizeofT * arrays[1].size), ok))

\* C20's case: shrink_to_fit has moved two or more elements into a block of
\* exactly their number
C20_Witness ==
    /\ ret.op = "shrink_to_fit" /\ ret.err = Ok /\ ret.moved
    /\ arrays[1].size >= 2 /\ arrays[1].capacity = arrays[1].size
    /\ arrays[1].data # NULL

\* pop_back() on the array t of world w, returning r: an empty array gets
\* EmptyArray and the world as it was; otherwise the last element is
\* destroyed, the others and every other member stay
PopBackContract(w, t, r) ==
    /\ t.size = 0 => r.err = "EmptyArray" /\ r.w = w
    /\ t.size > 0 =>
           /\ r.err = Ok
           /\ r.w.arrays[1].size = t.size - 1
           /\ Elements(r.w.arrays[1]) = SubSeq(t.cells, 1, t.size - 1)
           /\ r.w.arrays[1].cells[t.size] = Uninit
           /\ r.w.arrays[1].capacity = t.capacity
           /\ r.w.arrays[1] = [t EXCEPT !.size = t.size - 1, !.cells[t.size] = Uninit]
           /\ r.w = [w EXCEPT !.arrays[1] = r.w.arrays[1]]

\* C21: pop_back() returns EmptyArray and changes nothing when size == 0;
\* otherwise size decreases by one and the elements 0..size-2 and the
\* capacity are unchanged.
C21_PopBack ==
    ArrayRunning /\ arrays[1].life = "live" =>
        PopBackContract(World, arrays[1], pop_back(World, 1))

\* C21's cases: a pop_back that was refused on an empty array with storage,
\* or one that has left elements behind below the capacity
C21_Witness ==
    /\ ret.op = "pop_back"
    /\ \/ ret.err = "EmptyArray" /\ arrays[1].size = 0 /\ arrays[1].capacity > 0
       \/ ret.err = Ok /\ arrays[1].size >= 1 /\ arrays[1].capacity > arrays[1].size + 1

\* C22: no failure is process-fatal: when storage for an array cannot be
\* obtained, in a constructor, the copy constructor or copy assignment as
\* elsewhere, the call returns to its caller and the program never aborts.
C22_NoFatalFailure == ~aborted

\* C23: an end() never fails. When an inner scope is ended after the end() of
\* a scope that was open at its begin, the arena's offsets are the inner
\* scope's values at begin, not the outer ones: what the outer end() had
\* rolled back beyond its own snapshot is claimed again. When scopes are
\* ended last-in-first-out, each end() leaves the offsets at their values at
\* the matching begin.
C23_OutOfOrderEnd ==
    ret.op = "end" =>
        /\ ret.err = Ok
        /\ ended.open /\ ended.rolled # -1 =>
               /\ arena.prev_offset = ended.prev_offset
               /\ arena.curr_offset = ended.curr_offset
               /\ ended.curr_offset > ended.rolled => arena.curr_offset > ended.rolled
        /\ ended.lifo =>
               /\ arena.prev_offset = ended.prev_offset
               /\ arena.curr_offset = ended.curr_offset

\* C23's case: the inner scope, begun after an allocation inside the outer
\* one, has ended after the outer one and claimed the rolled-back space again
C23_Witness ==
    /\ ret.op = "end" /\ ended.open /\ ended.rolled # -1
    /\ ended.curr_offset > ended.rolled
    /\ arena.curr_offset > ended.rolled

\* C24: end() called twice in a row on the same scope leaves prev_offset and
\* curr_offset as the first call left them; in every state, a second end() of
\* any scope would change nothing that the first has not.
C24_EndIdempotent ==
    /\ ret.op = "end" /\ ended.twice =>
           /\ ended.same
           /\ arena.prev_offset = temps[ended.id].prev_offset
           /\ arena.curr_offset = temps[ended.id].curr_offset
    /\ \A s \in ScopeIds :
           temps[s].arena =>
               TempEnd(temps[s], TempEnd(temps[s], arena)) = TempEnd(temps[s], arena)

\* C24's case: a scope begun in a used arena has been ended twice in a row
C24_Witness ==
    /\ ret.op = "end" /\ ended.twice
    /\ arena.curr_offset > arena.prev_offset /\ arena.prev_offset > 0

\* C25: free(ptr) returns success and leaves prev_offset, curr_offset and the
\* bytes of the buffer unchanged, for every pointer (null, the blocks of the
\* arena, every address of the buffer, one before it and one past its end)
\* in every state of the arena.
C25_FreeDoesNothing ==
    /\ \A ptr \in Ptrs(arena) \cup (arena.buf .. (arena.buf + arena.buf_len)) :
           /\ free(arena, mem, ptr).err = Ok
           /\ free(arena, mem, ptr).a = arena
           /\ free(arena, mem, ptr).m = mem
           /\ ~free(arena, mem, ptr).oob
    /\ ret.op = "free" => ret.err = Ok /\ ub = "none"

\* C25's case: free() has returned in an arena whose last block is written
C25_Witness ==
    /\ ret.op = "free" /\ ret.err = Ok
    /\ 0 < arena.prev_offset /\ arena.prev_offset < arena.curr_offset
    /\ mem[arena.prev_offset] = 1

\* C26: align_forward(address, align) returns InvalidAlignment exactly when
\* align is not a power of two (0 included); otherwise it returns the
\* smallest multiple of align that is >= address, which is address itself
\* when address is aligned.
C26_AlignForward ==
    ret.op = "align_forward" =>
        /\ ret.err = "InvalidAlignment" <=> ~IsPow2(ret.align)
        /\ IsPow2(ret.align) =>
               /\ ret.err = Ok
               /\ ret.ptr = AlignUp(ret.address, ret.align)
               /\ ret.address % ret.align = 0 => ret.ptr = ret.address

\* the same where the smallest multiple of align from address on is a value
\* of the word; where it is not, the result is that multiple modulo the word
AlignForwardWithoutWrap ==
    ret.op = "align_forward" =>
        /\ ret.err = "InvalidAlignment" <=> ~IsPow2(ret.align)
        /\ IsPow2(ret.align) =>
               /\ ret.err = Ok
               /\ ret.ptr = Wrap(AlignUp(ret.address, ret.align))
               /\ AlignUp(ret.address, ret.align) < Word =>
                      ret.ptr = AlignUp(ret.address, ret.align)
               /\ ret.address % ret.align = 0 => ret.ptr = ret.address

\* C27: appending to an array that was empty, every growth raises the
\* capacity to at least floor(1.5 * capacity) + 1, so that the number of
\* reallocations within n appends is bounded by a logarithm of n: the
\* reallocation number count happens at the append number capacity + 1, and
\* count <= 2 * log2(capacity + 1) + 2.
C27_AmortizedGrowth ==
    growth.called =>
        /\ growth.new_capacity >= (3 * growth.capacity) \div 2 + 1
        /\ growth.count <= 2 * FloorLog2(growth.capacity + 1) + 2

\* what holds of every growth: the capacity grows by more than a quarter,
\* by floor(1.5 * capacity) + 1 at least while a float holds the product, and
\* the reallocations within n appends are bounded by the same logarithm
LogarithmicGrowth ==
    growth.called =>
        /\ growth.new_capacity > growth.capacity
        /\ growth.new_capacity >= growth.capacity + growth.capacity \div 4 + 1
        /\ 3 * growth.capacity < 2 ^ 24 =>
               growth.new_capacity >= (3 * growth.capacity) \div 2 + 1
        /\ growth.count <= 2 * FloorLog2(growth.capacity + 1) + 2

\* the slots of array t: as many as its capacity, constructed below size and
\* uninitialized from size on
SlotsAsSized(t) ==
    /\ Len(t.cells) = t.capacity
    /\ t.size <= t.capacity
    /\ \A i \in 1 .. Len(t.cells) : t.cells[i] # Uninit <=> i <= t.size

AlignedOffset(align) == AlignUp(arena.buf + arena.curr_offset, align) - arena.buf

\* C29: for every size of the machine word and every power-of-two align,
\* alloc_align fails with OutOfMemory whenever size exceeds buf_len minus the
\* aligned offset, and no call that succeeds leaves curr_offset < prev_offset.
C29_NoWrapInAllocAlign ==
    Running =>
        \A size \in 0 .. (Word - 1), align \in Aligns :
            IsPow2(align) =>
                LET r == alloc_align(arena, mem, size, align)
                IN  /\ size > arena.buf_len - AlignedOffset(align) =>
                           r.err = "OutOfMemory"
                    /\ r.a.curr_offset >= r.a.prev_offset

\* an oversized request succeeds only when offset + size passes the end of
\* the word, and then curr_offset is the sum modulo the word
OversizedOnlyByWrap ==
    Running /\ C1_OffsetsOrdered =>
        \A size \in 0 .. (Word - 1), align \in Aligns :
            IsPow2(align) =>
                LET r == alloc_align(arena, mem, size, align)
                IN  size > arena.buf_len - AlignedOffset(align) /\ r.err # "OutOfMemory" =>
                        /\ AlignedOffset(align) + size >= Word
                        /\ r.err = Ok
                        /\ r.a.curr_offset = AlignedOffset(align) + size - Word
                        /\ r.a.prev_offset = AlignedOffset(align)

\* C30: a successful reserve(n) with n > capacity has obtained a block of at
\* least n * sizeof(T) bytes, for every n of the machine word: where the
\* byte count is not a value of the word the call fails, and never records
\* capacity = n over a block of the byte count modulo the word.
C30_ReserveBytes ==
    ret.op = "reserve" /\ ret.err = Ok /\ ret.moved =>
        arrays[ret.self].bytes >= SizeofT * arrays[ret.self].capacity

\* every array whose capacity in bytes is a value of the word has a block of
\* that many bytes; a block is short only under a capacity whose byte count
\* wrapped, and then by a multiple of the word
BytesWithoutWrap ==
    \A a \in ArrayIds :
        /\ SizeofT * arrays[a].capacity < Word =>
               arrays[a].bytes >= SizeofT * arrays[a].capacity
        /\ arrays[a].bytes = Wrap(SizeofT * arrays[a].capacity)

\* ------------------------------------------------- claims on the blocks
\* the bytes of block b, as addresses
Bytes(b) == b.ptr .. (b.ptr + b.size - 1)
\* block b lies inside [buf, buf + buf_len)
InsideBuffer(b) == arena.buf <= b.ptr /\ b.ptr + b.size <= arena.buf + arena.buf_len
Aligned(b) == b.align # 0 => b.ptr % b.align = 0
\* the places in the list of the blocks returned since the last reset
Current == {i \in 1 .. Len(blocks.list) : ~blocks.list[i].old}

\* C31: between resets, every block returned by a successful alloc_align,
\* alloc or copying resize_align lies inside [buf, buf + buf_len), starts at
\* a multiple of the alignment asked for, and shares no byte with a block
\* returned earlier, a block resized in place taken at its current size.
C31_BlocksDisjoint ==
    /\ \A i \in Current :
           InsideBuffer(blocks.list[i]) /\ Aligned(blocks.list[i])
    /\ \A i \in Current : \A j \in Current :
           i < j => Bytes(blocks.list[i]) \cap Bytes(blocks.list[j]) = {}

\* the blocks returned since the last reset lie in the claimed part
BelowOffset ==
    \A i \in Current :
        blocks.list[i].ptr + blocks.list[i].size <= arena.buf + arena.curr_offset

\* what holds of every call: made in a state whose offsets are ordered within
\* the buffer and whose blocks are as C31 says and below curr_offset, a call
\* that writes nothing outside the buffer leaves the blocks as C31 says
BlocksStepWhileOrdered ==
    [][C31_BlocksDisjoint /\ BelowOffset /\ ub = "none"
          /\ arena.prev_offset <= arena.curr_offset /\ arena.curr_offset <= arena.buf_len
          /\ ub' = "none"
       => C31_BlocksDisjoint']_vars

\* the places in the list of the blocks that a scope's end() has left to
\* their owners
Outer == {i \in 1 .. Len(blocks.list) : blocks.list[i].old}

\* C32: a block allocated before the begin of a scope, at the size its owner
\* last obtained for it (an in-place resize_align inside the scope included),
\* shares no byte with a block returned by an allocation made after the
\* scope's end.
C32_ScopeEndSparesOuter ==
    \A i \in Outer : \A j \in Current :
        Bytes(blocks.list[i]) \cap Bytes(blocks.list[j]) = {}

\* the blocks whose size no end() has cut: inside the buffer, below
\* curr_offset and disjoint from one another
Uncut == {i \in 1 .. Len(blocks.list) : ~blocks.list[i].cut}
UncutDisjoint ==
    /\ \A i \in Uncut :
           /\ InsideBuffer(blocks.list[i])
           /\ blocks.list[i].ptr + blocks.list[i].size <= arena.buf + arena.curr_offset
    /\ \A i \in Uncut : \A j \in Uncut :
           i < j => Bytes(blocks.list[i]) \cap Bytes(blocks.list[j]) = {}

\* what holds of every call: made in a state whose offsets are ordered within
\* the buffer and whose blocks are all uncut, disjoint and below curr_offset,
\* a call that writes nothing outside the buffer and leaves curr_offset
\* within the buffer leaves the uncut blocks so, across begin and end: only
\* a block resized in place inside the scope is overlapped after the end
ScopeEndStepWhileOrdered ==
    [][UncutDisjoint /\ Uncut = 1 .. Len(blocks.list) /\ ub = "none"
          /\ arena.prev_offset <= arena.curr_offset /\ arena.curr_offset <= arena.buf_len
          /\ ub' = "none" /\ arena'.curr_offset <= arena'.buf_len
       => UncutDisjoint']_vars

\* C33: an alloc_align that returns an error, InvalidAlignment or
\* OutOfMemory, leaves prev_offset, curr_offset and every byte of the buffer
\* as they were, so that every request made after it is answered as it would
\* have been without the failed call.
C33_FailedAllocChangesNothing ==
    \A size \in Sizes(arena), align \in Aligns :
        LET r == alloc_align(arena, mem, size, align)
        IN  /\ r.err \in {Ok, "InvalidAlignment", "OutOfMemory"}
            /\ r.err = "InvalidAlignment" <=> ~IsPow2(align)
            /\ r.err # Ok =>
                   /\ r.a = arena /\ r.m = mem /\ ~r.oob /\ r.ptr = NULL
                   /\ \A next \in Sizes(arena), a2 \in Aligns :
                          alloc_align(r.a, r.m, next, a2) = alloc_align(arena, mem, next, a2)

\* C33's case: an alloc_align has failed for want of space in an arena that
\* holds a written block and still has room for a smaller request
C33_Witness ==
    /\ ret.op = "alloc_align" /\ ret.err = "OutOfMemory" /\ ub = "none"
    /\ 0 < arena.curr_offset /\ arena.curr_offset < arena.buf_len
    /\ arena.prev_offset < arena.curr_offset
    /\ mem[arena.prev_offset] = 1
    /\ alloc_align(arena, mem, 1, 1).err = Ok

\* -------------------------------------- claims on arguments by reference
\* the element that a call on array 1 has left in slot i
Slot(r, i) == value_at(Storage(r.w.arrays[1]), i)
Denoted(index) == value_at(Storage(arrays[1]), index)

\* C34: push_back(value) and insert(position, value) store the value that
\* the argument denoted when the call was made, also when value is a
\* reference to an element of the array itself: after a successful
\* a.push_back(a[index]) the last element, and after a successful
\* a.insert(position, a[index]) the element at position, is the value a[index]
\* had before the call, whatever is found in storage that the call has given up.
C34_ArgumentOfSameArray ==
    Built(1) /\ arrays[1].size < MaxSize =>
        \A index \in 0 .. (arrays[1].size - 1), ok \in BOOLEAN, found \in Vals :
            /\ LET r == push_back_ref(World, 1, index, ok, found)
               IN  r.err = Ok => Slot(r, arrays[1].size) = Denoted(index)
            /\ \A position \in 0 .. arrays[1].size :
                   LET r == insert_ref(World, 1, position, index, ok, found)
                   IN  r.err = Ok => Slot(r, position) = Denoted(index)

\* where the argument's storage is neither relocated nor shifted the value
\* stored is the one it denoted, and nothing undefined is done: push_back
\* with size < capacity, insert with size < capacity and index < position
ArgumentLeftInPlace ==
    Built(1) /\ arrays[1].size < arrays[1].capacity =>
        \A index \in 0 .. (arrays[1].size - 1), ok \in BOOLEAN, found \in Vals :
            /\ LET r == push_back_ref(World, 1, index, ok, found)
               IN  /\ r.err = Ok /\ r.w.bad = "none"
                   /\ Slot(r, arrays[1].size) = Denoted(index)
            /\ \A position \in (index + 1) .. arrays[1].size :
                   LET r == insert_ref(World, 1, position, index, ok, found)
                   IN  /\ r.err = Ok /\ r.w.bad = "none"
                       /\ Slot(r, position) = Denoted(index)

\* a shifted argument denotes its lower neighbour: insert with
\* size < capacity and position < index stores the value a[index - 1] had
ArgumentShifted ==
    Built(1) /\ arrays[1].size < arrays[1].capacity =>
        \A index \in 1 .. (arrays[1].size - 1), ok \in BOOLEAN, found \in Vals :
          \A position \in 0 .. (index - 1) :
            LET r == insert_ref(World, 1, position, index, ok, found)
            IN  /\ r.err = Ok /\ r.w.bad = "none"
                /\ Slot(r, position) = Denoted(index - 1)

\* ---------------------------------------- claims on arrays in the arena
ArenaBacked == Built(1) /\ arrays[1].allocator /\ ~deleted

\* the call that ended with r has given array 1 a block for n elements that
\* starts at or beyond the offset the arena had, and the arena's offset is
\* the end of that block
Claimed(r, n) ==
    /\ r.w.arrays[1].capacity = n
    /\ r.w.arrays[1].data >= arena.buf + arena.curr_offset
    /\ r.w.arrays[1].data % AlignofT = 0
    /\ r.w.arrays[1].data - arena.buf + SizeofT * n = r.w.arena.curr_offset
    /\ r.w.arena.curr_offset <= arena.buf_len

\* a call on array 1 that ended with r: the arena's offset has not gone
\* back; if the call has reallocated, the new block is Claimed, and if not,
\* the arena is as it was
Reallocated(r) ==
    r.err = Ok /\ r.w.arrays[1].capacity # arrays[1].capacity /\ r.w.arrays[1].capacity # 0
OnlyForward(r) ==
    /\ r.w.arena.curr_offset >= arena.curr_offset
    /\ IF Reallocated(r) THEN Claimed(r, r.w.arrays[1].capacity)
       ELSE r.w.arena.curr_offset = arena.curr_offset

\* what the claim says of the calls on array 1 in the state at hand, reserve
\* being asked for the capacities caps
ArenaForward(caps) ==
    /\ \A n \in caps :
           LET r == reserve(World, 1, n, TRUE)
           IN  /\ OnlyForward(r)
               /\ r.err = Ok /\ n > arrays[1].capacity => Claimed(r, n)
    /\ \A n \in 0 .. MaxSize, v \in Vals : OnlyForward(DynArray_resize(World, 1, n, v, TRUE))
    /\ \A v \in Vals : OnlyForward(push_back(World, 1, v, TRUE))
    /\ \A v \in Vals, p \in 0 .. arrays[1].size : OnlyForward(insert(World, 1, p, v, TRUE))
    /\ LET r == shrink_to_fit(World, 1, TRUE)
       IN  /\ OnlyForward(r)
           /\ r.err = Ok /\ 0 < arrays[1].size /\ arrays[1].size < arrays[1].capacity
                  => /\ Claimed(r, arrays[1].size)
                     /\ r.w.arena.curr_offset > arena.curr_offset
    /\ clear(World, 1).w.arena = arena
    /\ pop_back(World, 1).w.arena = arena
    /\ \A p \in 0 .. arrays[1].size : erase(World, 1, p).w.arena = arena

\* C35: no operation of an arena-backed array decreases the arena's
\* curr_offset or reuses the array's previous block: every successful
\* reallocation (reserve, the growth of push_back, insert and resize,
\* shrink_to_fit with 0 < size < capacity) takes a fresh block of
\* sizeof(T) * new capacity bytes at or beyond the current offset and leaves
\* the old block claimed, so that shrink_to_fit raises the arena's offset.
C35_ArenaOnlyGrows == ArenaBacked => ArenaForward(ArenaCaps)

\* sizes in bytes that neither wrap themselves nor wrap the offset
NoWrap(n) ==
    /\ SizeofT * n < Word
    /\ AlignedOffset(AlignofT) + SizeofT * n < Word

\* with capacities whose size in bytes and whose end in the arena stay
\* within the word, the arena's offset only grows
ArenaForwardWithoutWrap ==
    ArenaBacked /\ SizeofT * arrays[1].capacity = arrays[1].bytes =>
        ArenaForward({n \in ArenaCaps : NoWrap(n)})

====
